---- MODULE Spec2Model ----
(***************************************************************************)
(* NSRR-tools: the annotation grid and its synchronization with the signal *)
(* (core/annotation_processor.py), the dataset adapters' stage parsing     *)
(* (datasets/*_adapter.py) and the channel resolution                      *)
(* (core/channel_mapper.py).                                               *)
(*                                                                         *)
(* Times are exact rationals.  An event's start and duration are whole     *)
(* seconds; the signal duration raw.times[-1] = (n_times - 1) / sfreq is   *)
(* kept as the pair (n_times - 1, sfreq) and compared by cross             *)
(* multiplication, so no rounding of the model stands in for the float     *)
(* arithmetic of the code.  Starts are non-negative, durations positive.   *)
(***************************************************************************)
EXTENDS Integers, Sequences, FiniteSets, TLC

VARIABLES
    pc,                 \* position of the annotation run
    stages,             \* list of stage dicts handed to _stages_to_array
    stage_array,        \* the array _stages_to_array returned
    edf,                \* the EDF header as read by mne
    sync_result,        \* dict returned by _validate_synchronization
    synced_array,       \* stage_array after the synchronization step
    dataset,            \* adapter.dataset_name
    annotation_file,    \* content of the annotation file
    validate_sync,      \* argument of process_annotations
    output_file,        \* content of the .npy output path
    result,             \* dict returned by process_annotations
    config,             \* channel_defs tables held by ChannelMapper
    available_channels, \* argument of detect_channels_from_list
    detected,           \* dict returned by detect_channels_from_list
    channel_mapping,    \* {std_name: raw_name} handed to the modality detector
    modality_groups,    \* dict returned by group_channels_by_modality
    sleepfm_grouped,    \* dict returned by get_sleepfm_groups
    availability,       \* dict returned by get_modality_availability
    missing,            \* list returned by get_missing_modalities
    filtered_channels,  \* dict returned by _apply_sleepfm_limits
    raw,                \* the recording mne opened for process_edf
    processed_channels, \* processed_channels of process_edf, with their stats
    faults,             \* what fails in the environment during a call
    samples,            \* the samples handed to _normalize_signal
    normalized,         \* the array _normalize_signal returned
    norm_stats,         \* the stats dict _normalize_signal returned
    subjects,           \* the rows of dataset_df that process_dataset iterates
    skip_existing,      \* argument of process_dataset
    cursor,             \* position of the loop over the rows
    outputs,            \* per subject, the files at hdf5_path and annot_path
    results,            \* the results list of process_dataset
    summary             \* the counts process_dataset logs at its end

annot_vars == <<pc, stages, stage_array, edf, sync_result, synced_array>>
adapter_vars == <<dataset, annotation_file, validate_sync, output_file, result>>
channel_vars == <<config, available_channels, detected>>
group_vars ==
    <<channel_mapping, modality_groups, sleepfm_grouped, availability, missing,
      filtered_channels>>
\* the variables of the components modelled after the channel mapper
edf_vars == <<raw, processed_channels, faults>>
norm_vars == <<samples, normalized, norm_stats>>
batch_vars == <<subjects, skip_existing, cursor, outputs, results, summary>>
later_vars == <<group_vars, edf_vars, norm_vars, batch_vars>>
vars == <<annot_vars, adapter_vars, channel_vars, later_vars>>

----------------------------------------------------------------------------
(* Program constants *)

EPOCH_DURATION == 30

UNKNOWN == 0 - 1

\* python None / an absent file
None == "None"

----------------------------------------------------------------------------
(* Bounds of the model *)

MaxEvents == 2

MaxSigSteps == 8

\* event starts and durations are drawn on a half-epoch lattice
TimeStep == EPOCH_DURATION \div 2

StartOffsets == {0, TimeStep, 2 * TimeStep, 4 * TimeStep}

Durations == {TimeStep, 2 * TimeStep, 3 * TimeStep, 4 * TimeStep}

\* stage values carried by the events of the grid specification
EventStages == {0, 2}

\* sampling rates of the EDF header
SamplingRates == {1, 2}

----------------------------------------------------------------------------
(* Arithmetic helpers *)

Abs(x) == IF x < 0 THEN 0 - x ELSE x

Min(a, b) == IF a < b THEN a ELSE b

\* int(np.ceil(a / b)) for b > 0
CeilDiv(a, b) == 0 - ((0 - a) \div b)

\* int(a / b) for a >= 0, b > 0
IntDiv(a, b) == a \div b

SeqsUpTo(S, n) == UNION {[1..k -> S] : k \in 0..n}

----------------------------------------------------------------------------
(* AnnotationProcessor._stages_to_array *)

\* x.get('start', 0)
EvStart(ev) == IF "start" \in DOMAIN ev THEN ev.start ELSE 0

\* stage_info.get('duration', self.EPOCH_DURATION)
EvDuration(ev) == IF "duration" \in DOMAIN ev THEN ev.duration ELSE EPOCH_DURATION

\* stage_info.get('stage', -1)
EvStage(ev) == IF "stage" \in DOMAIN ev THEN ev.stage ELSE UNKNOWN

\* one step of python's stable sort: ev goes after every element whose key
\* is not greater than its own
InsertByStart(t, ev) ==
    LET p == Cardinality({i \in 1..Len(t) : EvStart(t[i]) <= EvStart(ev)})
    IN  SubSeq(t, 1, p) \o <<ev>> \o SubSeq(t, p + 1, Len(t))

RECURSIVE SortedPrefix(_, _)
SortedPrefix(s, k) ==
    IF k = 0 THEN <<>> ELSE InsertByStart(SortedPrefix(s, k - 1), s[k])

\* sorted(stages, key=lambda x: x.get('start', 0))
stages_sorted(s) == SortedPrefix(s, Len(s))

\* mutant of num_epochs: the epoch count rounded down instead of up
num_epochs_rounded_down(sorted) ==
    LET last_stage == sorted[Len(sorted)]
        total_duration == EvStart(last_stage) + EvDuration(last_stage)
    IN  IntDiv(total_duration, EPOCH_DURATION)

\* num_epochs = int(np.ceil(total_duration / self.EPOCH_DURATION))
num_epochs(sorted) ==
    LET last_stage == sorted[Len(sorted)]
        total_duration == EvStart(last_stage) + EvDuration(last_stage)
    IN  CeilDiv(total_duration, EPOCH_DURATION)

\* start_epoch = int(start_time / self.EPOCH_DURATION)
start_epoch(ev) == IntDiv(EvStart(ev), EPOCH_DURATION)

\* end_epoch = start_epoch + num_stage_epochs, before the clip to the array
end_epoch(ev) == start_epoch(ev) + CeilDiv(EvDuration(ev), EPOCH_DURATION)

\* one pass of the fill loop: stage_array[start_epoch:end_epoch] = stage_value
\* (0-based half-open slice = 1-based indices start_epoch+1 .. end_epoch)
FillStage(arr, ev) ==
    LET n == Len(arr)
        e == Min(end_epoch(ev), n)
    IN  IF start_epoch(ev) < n
        THEN [i \in 1..n |->
                IF start_epoch(ev) < i /\ i <= e THEN EvStage(ev) ELSE arr[i]]
        ELSE arr

RECURSIVE FillFrom(_, _, _)
FillFrom(arr, sorted, k) ==
    IF k > Len(sorted) THEN arr
    ELSE FillFrom(FillStage(arr, sorted[k]), sorted, k + 1)

stages_to_array(s) ==
    IF s = <<>> THEN <<>>
    ELSE LET sorted == stages_sorted(s)
             n == num_epochs(sorted)
         IN  FillFrom([i \in 1..n |-> UNKNOWN], sorted, 1)

----------------------------------------------------------------------------
(* AnnotationProcessor._validate_synchronization / _adjust_synchronization *)

\* signal_duration = raw.times[-1], as the rational num / den
signal_duration(hdr) == [num |-> hdr.n_times - 1, den |-> hdr.sfreq]

\* mutant of tolerance: four epochs allowed instead of two
tolerance_of_four_epochs == 4 * EPOCH_DURATION

\* tolerance = 2 * self.EPOCH_DURATION
tolerance == 2 * EPOCH_DURATION

\* mutant of needs_adjustment: a difference equal to the tolerance adjusts
needs_adjustment_at_tolerance(sd, annotation_duration) ==
    Abs(sd.num - annotation_duration * sd.den) >= tolerance * sd.den

\* needs_adjustment = difference > tolerance, with
\* difference = abs(signal_duration - annotation_duration)
needs_adjustment(sd, annotation_duration) ==
    Abs(sd.num - annotation_duration * sd.den) > tolerance * sd.den

\* mutant of signal_epochs: the expected count rounded up instead of down
signal_epochs_rounded_up(sd) == CeilDiv(sd.num, EPOCH_DURATION * sd.den)

\* 'signal_epochs': int(signal_duration / self.EPOCH_DURATION)
signal_epochs(sd) == IntDiv(sd.num, EPOCH_DURATION * sd.den)

\* raw.times[-1] raises on an unreadable file or an empty recording
EdfReadFails(hdr) == ~hdr.readable \/ hdr.n_times = 0

validate_synchronization(arr, hdr) ==
    IF EdfReadFails(hdr)
    THEN [signal_duration |-> [num |-> 0, den |-> 1],
          annotation_duration |-> Len(arr) * EPOCH_DURATION,
          needs_adjustment |-> FALSE,
          error |-> "edf read error"]
    ELSE LET sd == signal_duration(hdr)
             ad == Len(arr) * EPOCH_DURATION
         IN  [signal_duration |-> sd,
              annotation_duration |-> ad,
              needs_adjustment |-> needs_adjustment(sd, ad),
              signal_epochs |-> signal_epochs(sd),
              annotation_epochs |-> Len(arr)]

\* mutant of padding: np.zeros, which pads with wake (0)
padding_with_zeros(n) == [i \in 1..n |-> 0]

\* np.full(signal_epochs - annotation_epochs, -1, dtype=np.int8)
padding(n) == [i \in 1..n |-> UNKNOWN]

adjust_synchronization(arr, sr) ==
    LET se == IF "signal_epochs" \in DOMAIN sr THEN sr.signal_epochs ELSE Len(arr)
        ae == Len(arr)
    IN  IF se = ae THEN arr
        ELSE IF se < ae THEN SubSeq(arr, 1, se)
        ELSE arr \o padding(se - ae)

\* lines 107-120 of process_annotations: adjust only when validation asks
synchronize(arr, sr) ==
    IF sr.needs_adjustment THEN adjust_synchronization(arr, sr) ELSE arr

----------------------------------------------------------------------------
(* Inputs *)

StageDicts ==
    [start : StartOffsets, duration : Durations, stage : EventStages]
    \cup [start : StartOffsets, stage : EventStages]

\* n_times = q * TimeStep * sfreq + r: durations at and just below the lattice
EdfHeaders ==
    {[exists |-> TRUE, readable |-> TRUE,
      n_times |-> q * TimeStep * sf + r, sfreq |-> sf] :
        q \in 0..MaxSigSteps, r \in {0, 1}, sf \in SamplingRates}
    \cup {[exists |-> TRUE, readable |-> FALSE, n_times |-> 0, sfreq |-> 1]}

NoSync == [needs_adjustment |-> FALSE]

\* no EDF file at edf_path
NoHeader == [exists |-> FALSE, readable |-> FALSE, n_times |-> 0, sfreq |-> 1]

----------------------------------------------------------------------------
(* Grid specification: _stages_to_array followed by the synchronization    *)
(* step, applied to every bounded list of stage dicts and every header.    *)

\* no file at a path
NoFile == [exists |-> FALSE, data |-> <<>>]

\* a saved .npy file
NpyFile(arr) == [exists |-> TRUE, data |-> arr]

AdapterIdle ==
    /\ dataset = None
    /\ annotation_file = [parseable |-> FALSE, rows |-> <<>>]
    /\ validate_sync = TRUE
    /\ output_file = NoFile
    /\ result = None

ChannelIdle ==
    /\ config = None
    /\ available_channels = <<>>
    /\ detected = <<>>

GroupIdle ==
    /\ channel_mapping = <<>>
    /\ modality_groups = <<>>
    /\ sleepfm_grouped = <<>>
    /\ availability = <<>>
    /\ missing = <<>>
    /\ filtered_channels = <<>>

\* no recording opened
NoRecording == [readable |-> FALSE, ch_names |-> <<>>, n_times |-> 0, sfreq |-> 1]

\* nothing fails: no channel whose samples cannot be read, filtfilt
\* returns, and so does the write of the output (_save_hdf5, np.save)
NoFaults == [broken |-> {}, filtfilt_raises |-> FALSE, save_raises |-> FALSE]

EdfIdle ==
    /\ raw = NoRecording
    /\ processed_channels = <<>>
    /\ faults = NoFaults

NormIdle ==
    /\ samples = <<>>
    /\ normalized = <<>>
    /\ norm_stats = None

BatchIdle ==
    /\ subjects = <<>>
    /\ skip_existing = TRUE
    /\ cursor = 1
    /\ outputs = <<>>
    /\ results = <<>>
    /\ summary = None

LaterIdle == GroupIdle /\ EdfIdle /\ NormIdle /\ BatchIdle

InitGrid ==
    /\ pc = "input"
    /\ stages \in SeqsUpTo(StageDicts, MaxEvents)
    /\ stage_array = <<>>
    /\ edf = NoHeader
    /\ sync_result = NoSync
    /\ synced_array = <<>>
    /\ AdapterIdle
    /\ ChannelIdle
    /\ LaterIdle

ToFixedGrid ==
    /\ pc = "input"
    /\ stage_array' = stages_to_array(stages)
    /\ pc' = "built"
    /\ UNCHANGED <<stages, edf, sync_result, synced_array>>
    /\ UNCHANGED <<adapter_vars, channel_vars, later_vars>>

Synchronize ==
    /\ pc = "built"
    /\ \E hdr \in EdfHeaders :
        /\ edf' = hdr
        /\ sync_result' = validate_synchronization(stage_array, hdr)
        /\ synced_array' = synchronize(stage_array, sync_result')
    /\ pc' = "synced"
    /\ UNCHANGED <<stages, stage_array>>
    /\ UNCHANGED <<adapter_vars, channel_vars, later_vars>>

NextGrid == ToFixedGrid \/ Synchronize

SpecGrid == InitGrid /\ [][NextGrid]_vars

----------------------------------------------------------------------------
(* Dataset adapters: parse_annotations.  A row of an annotation file is its *)
(* event label, its start in seconds and its duration in seconds.          *)

MaxRows == 2

Datasets == {"stages", "shhs", "apples", "mros"}

\* keys of STAGESAdapter's stage_map
StagesStageMap ==
    [Wake |-> 0, Stage1 |-> 1, Stage2 |-> 2, Stage3 |-> 3, Stage4 |-> 3,
     REM |-> 5, UnknownStage |-> UNKNOWN, Unscored |-> UNKNOWN]

\* keys of APPLESAdapter's stage_map
ApplesStageMap ==
    [W |-> 0, N1 |-> 1, N2 |-> 2, N3 |-> 3, N4 |-> 3, R |-> 5, REM |-> 5,
     U |-> UNKNOWN] @@ ("?" :> UNKNOWN)

\* stage_map of SHHSAdapter and MrOSAdapter
NsrrXmlStageMap ==
    ("Stage 1 sleep|1" :> 1) @@ ("Stage 2 sleep|2" :> 2) @@
    ("Stage 3 sleep|3" :> 3) @@ ("Stage 4 sleep|4" :> 4) @@
    ("REM sleep|5" :> 5) @@ ("Wake|0" :> 0) @@ ("Unscored|9" :> UNKNOWN)

\* 'Stage' in event_concept.text, on the NSRR XML concepts
ContainsStage(label) ==
    label \in {"Stage 1 sleep|1", "Stage 2 sleep|2", "Stage 3 sleep|3",
               "Stage 4 sleep|4", "Stage 5 sleep|5"}

\* labels an annotation file of the dataset may carry: the keys of the
\* adapter's stage_map, a stage concept the map does not know, another event
RowLabels(ds) ==
    CASE ds = "stages" -> DOMAIN StagesStageMap \cup {"Arousal"}
      [] ds = "apples" -> DOMAIN ApplesStageMap \cup {"arousal"}
      [] OTHER -> DOMAIN NsrrXmlStageMap
                    \cup {"Stage 5 sleep|5", "Arousal|Arousal ()"}

RowStarts == {0, EPOCH_DURATION}

RowDurations == {EPOCH_DURATION}

Rows(ds) == [label : RowLabels(ds), start : RowStarts, duration : RowDurations]

\* a file the parser rejects (ET.parse / pd.read_csv raises)
Unparseable == [parseable |-> FALSE, rows |-> <<>>]

AnnotationFiles(ds) ==
    {Unparseable}
        \cup {[parseable |-> TRUE, rows |-> r] : r \in SeqsUpTo(Rows(ds), MaxRows)}

\* STAGESAdapter: a row whose Event holds a key of stage_map is a stage
StagesStageOf(row) ==
    [start |-> row.start,
     stage |-> StagesStageMap[row.label],
     label |-> row.label,
     duration |-> IF row.duration # 0 THEN row.duration ELSE EPOCH_DURATION]

\* SHHSAdapter / MrOSAdapter: stage_map.get(stage_label, -1); no duration key
NsrrXmlStageOf(row) ==
    [start |-> row.start,
     stage |-> IF row.label \in DOMAIN NsrrXmlStageMap
               THEN NsrrXmlStageMap[row.label] ELSE UNKNOWN,
     label |-> row.label]

\* APPLESAdapter: duration = stop_seconds - start_seconds
ApplesStageOf(row) ==
    [start |-> row.start,
     stage |-> ApplesStageMap[row.label],
     label |-> row.label,
     duration |-> row.duration]

IsStagesStage(row) == row.label \in DOMAIN StagesStageMap

IsNsrrXmlStage(row) == ContainsStage(row.label)

IsApplesStage(row) == row.label \in DOMAIN ApplesStageMap

\* the test that makes a row a stage row
IsStageRow(ds, row) ==
    CASE ds = "stages" -> IsStagesStage(row)
      [] ds = "apples" -> IsApplesStage(row)
      [] OTHER -> IsNsrrXmlStage(row)

\* the stage dict appended for a stage row
StageOf(ds, row) ==
    CASE ds = "stages" -> StagesStageOf(row)
      [] ds = "apples" -> ApplesStageOf(row)
      [] OTHER -> NsrrXmlStageOf(row)

\* the loop over the rows of the file: stages.append(...) for stage rows
RECURSIVE AppendStages(_, _, _)
AppendStages(ds, rows, k) ==
    IF k > Len(rows) THEN <<>>
    ELSE (IF IsStageRow(ds, rows[k]) THEN <<StageOf(ds, rows[k])>> ELSE <<>>)
            \o AppendStages(ds, rows, k + 1)

\* adapter.parse_annotations(annotation_path)['stages']; the STAGES, SHHS and
\* MrOS adapters sort by start, the APPLES adapter keeps the file order
parse_annotations(ds, file) ==
    IF ~file.parseable THEN <<>>
    ELSE IF ds = "apples" THEN AppendStages(ds, file.rows, 1)
    ELSE stages_sorted(AppendStages(ds, file.rows, 1))

----------------------------------------------------------------------------
(* AnnotationProcessor.process_annotations, one call per step              *)

\* the EDF at edf_path: absent, or a header
\* edf_path: absent, unreadable, or a 1 Hz recording of a whole number of
\* half epochs (the finer headers are exercised by the grid specification)
EdfFiles ==
    {NoHeader}
        \cup {h \in EdfHeaders :
                ~h.readable \/ (h.sfreq = 1 /\ h.n_times % TimeStep = 1)}

Failure(error) == [success |-> FALSE, error |-> error, num_epochs |-> 0]

Success(arr) == [success |-> TRUE, num_epochs |-> Len(arr)]

InitAnnot ==
    /\ pc = "idle"
    /\ stages = <<>>
    /\ stage_array = <<>>
    /\ edf = NoHeader
    /\ sync_result = NoSync
    /\ synced_array = <<>>
    /\ AdapterIdle
    /\ ChannelIdle
    /\ LaterIdle

process_annotations(ds, file, hdr, vs, save_raises) ==
    LET parsed == parse_annotations(ds, file)
        built == stages_to_array(parsed)
        checked == vs /\ hdr.exists
        sr == IF checked THEN validate_synchronization(built, hdr) ELSE NoSync
        final == synchronize(built, sr)
    IN  /\ dataset' = ds
        /\ annotation_file' = file
        /\ edf' = hdr
        /\ validate_sync' = vs
        /\ stages' = parsed
        /\ faults' = [NoFaults EXCEPT !.save_raises = save_raises]
        /\ pc' = "returned"
        /\ IF parsed = <<>>
           THEN /\ result' = Failure("Empty stages")
                /\ UNCHANGED <<stage_array, sync_result, synced_array, output_file>>
           ELSE /\ stage_array' = built
                /\ sync_result' = sr
                /\ synced_array' = final
                /\ IF save_raises
                   THEN /\ result' = Failure("exception")
                        /\ UNCHANGED output_file
                   ELSE /\ output_file' = NpyFile(final)
                        /\ result' = Success(final)

ProcessAnnotations ==
    /\ pc = "idle"
    /\ \E ds \in Datasets, hdr \in EdfFiles, vs \in BOOLEAN,
          save_raises \in BOOLEAN :
          \E file \in AnnotationFiles(ds) :
              process_annotations(ds, file, hdr, vs, save_raises)
    /\ UNCHANGED <<channel_vars, group_vars, raw, processed_channels, norm_vars>>
    /\ UNCHANGED batch_vars

NextAnnot == ProcessAnnotations

SpecAnnot == InitAnnot /\ [][NextAnnot]_vars

----------------------------------------------------------------------------
(* Notions the grid claims are stated with *)

\* the signal duration D of a readable header, and D compared with a whole
\* number of seconds x
SyncedWithSignal == pc = "synced" /\ ~EdfReadFails(edf)

DurationAtLeast(x) == (edf.n_times - 1) >= x * edf.sfreq

DurationAtMost(x) == (edf.n_times - 1) <= x * edf.sfreq

\* the expected epoch count floor(D / 30), from the header alone
ExpectedEpochs ==
    CHOOSE e \in 0..(edf.n_times + 1) :
        DurationAtLeast(e * EPOCH_DURATION) /\ ~DurationAtLeast((e + 1) * EPOCH_DURATION)

\* | expected - len | <= 2, the tolerance counted in epochs
WithinTwoEpochs ==
    /\ ExpectedEpochs <= Len(stage_array) + 2
    /\ Len(stage_array) <= ExpectedEpochs + 2

\* | D - 30 * len | <= 60, the tolerance measured in seconds
WithinSixtySeconds ==
    /\ DurationAtLeast(Len(stage_array) * EPOCH_DURATION - 2 * EPOCH_DURATION)
    /\ DurationAtMost(Len(stage_array) * EPOCH_DURATION + 2 * EPOCH_DURATION)

\* epochs (1-based) of an array of n epochs that the time span of ev touches:
\* 0-based [floor(start/30), ceil((start+duration)/30)), clipped to the array
SpanEpochs(ev, n) ==
    {i \in 1..n :
        /\ i * EPOCH_DURATION > EvStart(ev)
        /\ (i - 1) * EPOCH_DURATION < EvStart(ev) + EvDuration(ev)}

\* the event that is last in ascending start order, the last supplied among
\* those with the greatest start
LastByStart(s) ==
    s[CHOOSE k \in 1..Len(s) :
        \A j \in 1..Len(s) :
            \/ EvStart(s[j]) < EvStart(s[k])
            \/ (EvStart(s[j]) = EvStart(s[k]) /\ j <= k)]

MaxOf(S) == CHOOSE m \in S : \A x \in S : x <= m

----------------------------------------------------------------------------
(* C1 *)

----------------------------------------------------------------------------
(* C2 *)

----------------------------------------------------------------------------
(* C3 *)

C3_TruncationReached ==
    /\ SyncedWithSignal
    /\ ExpectedEpochs > 0
    /\ Len(synced_array) < Len(stage_array)

----------------------------------------------------------------------------
(* C4 *)

\* writing an event over the epochs its time span touches
FillSpan(arr, ev) ==
    [i \in 1..Len(arr) |->
        IF i \in SpanEpochs(ev, Len(arr)) THEN EvStage(ev) ELSE arr[i]]

RECURSIVE FillSpansFrom(_, _, _)
FillSpansFrom(arr, sorted, k) ==
    IF k > Len(sorted) THEN arr
    ELSE FillSpansFrom(FillSpan(arr, sorted[k]), sorted, k + 1)

\* C4 as stated: the array is the result of writing, for each event in
\* sorted order, its stage code to exactly the epochs
\* [floor(start/30), ceil((start+duration)/30)) clipped to the array.
C4_WritesSpanEpochs ==
    pc = "built" =>
        stage_array =
            FillSpansFrom([i \in 1..Len(stage_array) |-> UNKNOWN],
                          stages_sorted(stages), 1)

----------------------------------------------------------------------------
(* C5 *)

\* positions, in ascending start order, of the events whose span touches
\* epoch i
Coverers(i) ==
    {k \in 1..Len(stages) :
        i \in SpanEpochs(stages_sorted(stages)[k], Len(stage_array))}

\* C5 as stated: an epoch covered by several events holds the stage code of
\* the covering event that is last in ascending start order.
C5_LastCoveringEventWins ==
    pc = "built" =>
        \A i \in 1..Len(stage_array) :
            Cardinality(Coverers(i)) >= 2 =>
                stage_array[i] = EvStage(stages_sorted(stages)[MaxOf(Coverers(i))])

----------------------------------------------------------------------------
(* C6 *)

\* C6 as stated: for a non-empty list the array has
\* ceil(max over events of (start + duration) / 30) epochs, and every epoch
\* no event covers holds -1.
C6_LengthCoversLatestEnd ==
    (pc = "built" /\ stages # <<>>) =>
        /\ Len(stage_array) =
              CeilDiv(MaxOf({EvStart(stages[k]) + EvDuration(stages[k]) :
                                k \in 1..Len(stages)}), EPOCH_DURATION)
        /\ \A i \in 1..Len(stage_array) :
              (\A k \in 1..Len(stages) :
                    i \notin SpanEpochs(stages[k], Len(stage_array)))
                  => stage_array[i] = UNKNOWN

\* C6 amended: for a non-empty list the array has
\* ceil((start + duration) / 30) epochs for the event that is last in
\* ascending start order (the last supplied among equal starts), and every
\* epoch no event covers holds -1.
C6_LengthCoversLastStartedEnd ==
    (pc = "built" /\ stages # <<>>) =>
        /\ \E n \in 0..Len(stage_array) :
              /\ n = Len(stage_array)
              /\ n * EPOCH_DURATION >=
                    EvStart(LastByStart(stages)) + EvDuration(LastByStart(stages))
              /\ (n > 0 =>
                    (n - 1) * EPOCH_DURATION <
                        EvStart(LastByStart(stages)) + EvDuration(LastByStart(stages)))
        /\ \A i \in 1..Len(stage_array) :
              (\A k \in 1..Len(stages) :
                    i \notin SpanEpochs(stages[k], Len(stage_array)))
                  => stage_array[i] = UNKNOWN

\* an earlier event ends after the last-started one, and an epoch in front
\* of both is left unknown
C6_Witness ==
    /\ pc = "built"
    /\ Len(stages) = 2
    /\ \E k \in 1..Len(stages) :
          EvStart(stages[k]) + EvDuration(stages[k]) >
              Len(stage_array) * EPOCH_DURATION
    /\ Len(stage_array) > 1
    /\ stage_array[1] = UNKNOWN
    /\ \A k \in 1..Len(stages) : 1 \notin SpanEpochs(stages[k], Len(stage_array))

----------------------------------------------------------------------------
(* C7 *)

\* stage-code space of the label artifact: unknown, wake, N1, N2, N3, REM
StageCodes == {UNKNOWN, 0, 1, 2, 3, 5}

\* C7: every entry of the array process_annotations saves is a stage code of
\* {-1, 0, 1, 2, 3, 5} (a stage 4 event appears as 3), whichever adapter
\* parsed the annotation file.
C7_SavedLabelsAreStageCodes ==
    (pc = "returned" /\ result.success) =>
        \A i \in 1..Len(output_file.data) : output_file.data[i] \in StageCodes

----------------------------------------------------------------------------
(* ChannelMapper.  A channel label is the sequence of its characters, so    *)
(* that str.lower() and "is contained in" are computed, not assumed.  The   *)
(* channel definitions come from a configuration file: the model draws      *)
(* them from a bounded set of tables.                                        *)

MaxLabels == 3

MaxAliases == 2

\* str.lower() on one character of the label alphabet
LowerChar(c) ==
    CASE c = "C" -> "c"
      [] c = "M" -> "m"
      [] c = "H" -> "h"
      [] c = "I" -> "i"
      [] c = "N" -> "n"
      [] OTHER -> c

\* str.lower()
lower(s) == [i \in DOMAIN s |-> LowerChar(s[i])]

\* the labels "C3", "c3", "C4", "c4", "C3M"
LabelC3 == <<"C", "3">>

Labelc3 == <<"c", "3">>

LabelC4 == <<"C", "4">>

Labelc4 == <<"c", "4">>

LabelC3M == <<"C", "3", "M">>

\* labels an EDF header may carry
RawLabels == {LabelC3, Labelc3, LabelC4, LabelC3M}

\* names a configuration may list as alternatives or in a priority list
AliasNames == {LabelC3, Labelc4}

\* keys of channel_alternatives, in the order of the configuration file
StandardNames == <<"C3-M2", "C4-M1">>

Range(s) == {s[i] : i \in DOMAIN s}

DistinctSeqs(S, n) ==
    {t \in SeqsUpTo(S, n) : t # <<>> /\ \A i, j \in DOMAIN t : t[i] = t[j] => i = j}

\* config.channel_defs: channel_alternatives is an ordered mapping
\* standard name -> alternatives; channel_priority lists some standard names
Configs ==
    {[channel_alternatives |->
          [k \in DOMAIN StandardNames |->
              [standard_name |-> StandardNames[k], alternatives |-> alts[k]]],
      channel_priority |-> prio] :
        alts \in [DOMAIN StandardNames -> DistinctSeqs(AliasNames, MaxAliases)],
        prio \in UNION {[D -> DistinctSeqs(AliasNames, MaxAliases)] :
                            D \in SUBSET Range(StandardNames)}}

\* the greatest / least element of a non-empty set of indices
LastIndex(S) == CHOOSE m \in S : \A x \in S : x <= m

FirstIndex(S) == CHOOSE m \in S : \A x \in S : m <= x

\* {ch.lower(): ch for ch in available_channels}: a later label replaces an
\* earlier one with the same lowercase form
available_lower(chs) ==
    [k \in {lower(chs[i]) : i \in DOMAIN chs} |->
        chs[LastIndex({i \in DOMAIN chs : lower(chs[i]) = k})]]

\* self.channel_priority.get(standard_name, alternatives)
search_order(cfg, entry) ==
    IF entry.standard_name \in DOMAIN cfg.channel_priority
    THEN cfg.channel_priority[entry.standard_name]
    ELSE entry.alternatives

\* the inner loop: the first name of the search order whose lowercase form is
\* a key of available_lower.  <<>> stands for both None and the empty label,
\* which "if found_name" does not tell apart.
found_name(order, al) ==
    LET hits == {k \in DOMAIN order : lower(order[k]) \in DOMAIN al}
    IN  IF hits = {} THEN <<>> ELSE al[lower(order[FirstIndex(hits)])]

\* the outer loop over channel_alternatives.items(); the result keeps the
\* insertion order of the dict
RECURSIVE DetectFrom(_, _, _)
DetectFrom(cfg, al, k) ==
    IF k = 0 THEN <<>>
    ELSE LET entry == cfg.channel_alternatives[k]
             found == found_name(search_order(cfg, entry), al)
             before == DetectFrom(cfg, al, k - 1)
         IN  IF found # <<>>
             THEN Append(before, [standard_name |-> entry.standard_name,
                                  found_name |-> found])
             ELSE before

detect_channels_from_list(cfg, chs) ==
    DetectFrom(cfg, available_lower(chs), Len(cfg.channel_alternatives))

AnnotIdle ==
    /\ stages = <<>>
    /\ stage_array = <<>>
    /\ edf = NoHeader
    /\ sync_result = NoSync
    /\ synced_array = <<>>

\* a ChannelMapper constructed over a configuration
InitChan ==
    /\ pc = "ready"
    /\ config \in Configs
    /\ available_channels = <<>>
    /\ detected = <<>>
    /\ AnnotIdle
    /\ AdapterIdle
    /\ LaterIdle

DetectChannelsFromList ==
    /\ pc = "ready"
    /\ \E chs \in SeqsUpTo(RawLabels, MaxLabels) :
          /\ available_channels' = chs
          /\ detected' = detect_channels_from_list(config, chs)
    /\ pc' = "detected"
    /\ UNCHANGED <<config, stages, stage_array, edf, sync_result, synced_array>>
    /\ UNCHANGED <<adapter_vars, later_vars>>

\* the same call once more on the same list
DetectAgain ==
    /\ pc = "detected"
    /\ detected' = detect_channels_from_list(config, available_channels)
    /\ pc' = "repeated"
    /\ UNCHANGED <<config, available_channels>>
    /\ UNCHANGED <<stages, stage_array, edf, sync_result, synced_array>>
    /\ UNCHANGED <<adapter_vars, later_vars>>

NextChan == DetectChannelsFromList \/ DetectAgain

SpecChan == InitChan /\ [][NextChan]_vars

----------------------------------------------------------------------------
(* Notions the channel claims are stated with *)

Called == pc \in {"detected", "repeated"}

\* every reordering of a list of labels
Permuted(chs) == {[i \in DOMAIN chs |-> chs[p[i]]] : p \in Permutations(DOMAIN chs)}

\* a result as a mapping, without the insertion order
AsMapping(d) == {<<d[i].standard_name, d[i].found_name>> : i \in DOMAIN d}

\* exact case-insensitive equality of two labels
SameIgnoringCase(a, b) == lower(a) = lower(b)

\* the raw labels a result gives to a standard name
FoundFor(name) ==
    {detected[i].found_name : i \in {j \in DOMAIN detected :
                                        detected[j].standard_name = name}}

----------------------------------------------------------------------------
(* C8 *)

\* C8: the mapping returned for a list of raw labels is the mapping returned
\* for every permutation of that list, and calling again on the same list
\* returns the same mapping.
C8_SameMappingForEveryPermutation ==
    Called =>
        \A chs \in Permuted(available_channels) :
            AsMapping(detect_channels_from_list(config, chs)) = AsMapping(detected)

----------------------------------------------------------------------------
(* C9 *)

\* C9: a standard channel is in the result exactly when one of its
\* alternatives equals a raw label ignoring case; it is then mapped to a raw
\* label matched by the earliest matching candidate of its priority order,
\* and that label equals one of its alternatives ignoring case (containing
\* an alternative, or being contained in one, is not a match).
C9_PresentIffAnAliasMatches ==
    Called =>
        \A k \in DOMAIN config.channel_alternatives :
            LET entry == config.channel_alternatives[k]
                order == search_order(config, entry)
                found == FoundFor(entry.standard_name)
            IN  /\ (found # {}) <=>
                      \E a \in Range(entry.alternatives) :
                          \E label \in Range(available_channels) :
                              SameIgnoringCase(a, label)
                /\ \A label \in found :
                      /\ label \in Range(available_channels)
                      /\ \E c \in DOMAIN order :
                            /\ SameIgnoringCase(order[c], label)
                            /\ \A b \in 1..(c - 1) :
                                  \A other \in Range(available_channels) :
                                      ~SameIgnoringCase(order[b], other)
                      /\ \E a \in Range(entry.alternatives) :
                            SameIgnoringCase(a, label)

----------------------------------------------------------------------------
(* C10 *)

\* C10: each standard name of a result has exactly one raw label, that label
\* is an element of the input list as spelled there, and no raw label is
\* given to two standard names.
C10_OneLabelEachAndNoLabelTwice ==
    Called =>
        /\ \A i, j \in DOMAIN detected :
              detected[i].standard_name = detected[j].standard_name => i = j
        /\ \A i \in DOMAIN detected :
              detected[i].found_name \in Range(available_channels)
        /\ \A i, j \in DOMAIN detected :
              detected[i].found_name = detected[j].found_name => i = j

----------------------------------------------------------------------------
(* ModalityDetector and SignalProcessor._apply_sleepfm_limits.  A python    *)
(* dict is the sequence of its items in insertion order: a channel dict is  *)
(* a sequence of [standard_name, found_name], a dict of channel dicts a     *)
(* sequence of [key, channels].  The modality tables come from a            *)
(* configuration file and are drawn from a bounded set.                     *)

MaxDetected == 3

MaxCap == 2

\* keys of modality_groups['modalities'], in file order
ModalityNames == <<"EEG", "EOG", "ECG", "EMG", "RESP">>

\* keys of the sleepfm_groups dict of _apply_sleepfm_limits, in its order
SleepfmNames == <<"BAS", "EKG", "EMG", "RESP">>

\* modalities[modality]['sleepfm_group']: BAS includes EEG + EOG, the others
\* map directly
SleepfmGroupOf ==
    [m \in Range(ModalityNames) |->
        CASE m \in {"EEG", "EOG"} -> "BAS"
          [] m = "ECG" -> "EKG"
          [] OTHER -> m]

\* standard channel names a recording may be resolved to
StandardChannels == {"C3-M2", "C4-M1", "LOC", "EKG", "CHIN", "Thor", "ABD"}

\* modalities[modality]['channels'] as the configuration test lists them
BaseChannels ==
    [m \in Range(ModalityNames) |->
        CASE m = "EEG" -> <<"C3-M2", "C4-M1">>
          [] m = "EOG" -> <<"LOC">>
          [] m = "ECG" -> <<"EKG">>
          [] m = "EMG" -> <<"CHIN">>
          [] OTHER -> <<"Thor", "ABD">>]

\* channel tables: the base table, one that lists LOC in no modality, and one
\* that lists LOC in two
ChannelTables ==
    {BaseChannels,
     [BaseChannels EXCEPT !["EOG"] = <<>>],
     [BaseChannels EXCEPT !["EEG"] = <<"C3-M2", "C4-M1", "LOC">>]}

\* BAS=10, ECG=2, EMG=4, RESP=7
PaperCaps ==
    [g \in Range(SleepfmNames) |->
        CASE g = "BAS" -> 10 [] g = "EKG" -> 2 [] g = "EMG" -> 4 [] OTHER -> 7]

CapTables == {PaperCaps} \cup {[g \in Range(SleepfmNames) |-> c] : c \in 0..MaxCap}

\* sleepfm_modalities[group]: 'priority_order' is an optional key
NoPriorityOrder(caps) == [g \in Range(SleepfmNames) |-> [max_channels |-> caps[g]]]

WithPriorityOrder(caps, bas, resp) ==
    [g \in Range(SleepfmNames) |->
        [max_channels |-> caps[g],
         priority_order |-> CASE g = "BAS" -> bas [] g = "RESP" -> resp
                              [] OTHER -> <<>>]]

SleepfmTables ==
    UNION {{NoPriorityOrder(caps),
            WithPriorityOrder(caps, <<"LOC", "C3-M2">>, <<"ABD">>),
            WithPriorityOrder(caps, <<"C4-M1", "O1-M2", "C3-M2", "LOC">>,
                              <<"Flow", "Thor", "ABD">>)} : caps \in CapTables}

\* config.modality_groups
ModalityConfigs ==
    {[modalities |->
          [k \in DOMAIN ModalityNames |->
              [modality |-> ModalityNames[k],
               channels |-> table[ModalityNames[k]],
               sleepfm_group |-> SleepfmGroupOf[ModalityNames[k]]]],
      sleepfm_modalities |-> sleepfm] :
        table \in ChannelTables, sleepfm \in SleepfmTables}

\* how a recording spells the label of a standard channel
RawNameAsStandard == [c \in StandardChannels |-> c]

RawNameOfTest ==
    [c \in StandardChannels |->
        CASE c = "C3-M2" -> "EEG C3-M2"
          [] c = "C4-M1" -> "EEG C4-M1"
          [] c = "LOC" -> "EOG LOC-A2"
          [] c = "EKG" -> "ECG"
          [] c = "CHIN" -> "Chin EMG"
          [] c = "Thor" -> "THOR RES"
          [] OTHER -> "ABDOMEN"]

\* detected channel dicts: distinct standard names in any order
ChannelMappings ==
    {[k \in DOMAIN names |->
          [standard_name |-> names[k], found_name |-> spelling[names[k]]]] :
        names \in {t \in SeqsUpTo(StandardChannels, MaxDetected) :
                      \A i, j \in DOMAIN t : t[i] = t[j] => i = j},
        spelling \in {RawNameAsStandard, RawNameOfTest}}

\* keys of a channel dict, in order
Keys(d) == [i \in DOMAIN d |-> d[i].standard_name]

\* key in dict, for a dict of channel dicts
HasKey(dd, key) == \E i \in DOMAIN dd : dd[i].key = key

\* dd.get(key, {})
GetOrEmpty(dd, key) ==
    IF HasKey(dd, key)
    THEN dd[CHOOSE i \in DOMAIN dd : dd[i].key = key].channels
    ELSE <<>>

\* the inner loop of group_channels_by_modality: the first modality whose
\* channel list holds the name (0 when none does)
first_modality(cfg, standard_name) ==
    LET hits == {k \in DOMAIN cfg.modalities :
                    standard_name \in Range(cfg.modalities[k].channels)}
    IN  IF hits = {} THEN 0 ELSE FirstIndex(hits)

group_channels_by_modality(cfg, detected_channels) ==
    LET InModality(k) ==
            LET Belongs(e) == first_modality(cfg, e.standard_name) = k
            IN  SelectSeq(detected_channels, Belongs)
        grouped == [k \in DOMAIN cfg.modalities |->
                       [key |-> cfg.modalities[k].modality,
                        channels |-> InModality(k)]]
        NotEmpty(g) == g.channels # <<>>
    IN  SelectSeq(grouped, NotEmpty)

\* d[key] = value on a channel dict: an existing key keeps its place
SetItem(d, item) ==
    IF \E i \in DOMAIN d : d[i].standard_name = item.standard_name
    THEN [i \in DOMAIN d |->
            IF d[i].standard_name = item.standard_name THEN item ELSE d[i]]
    ELSE Append(d, item)

\* d.update(items)
RECURSIVE Update(_, _, _)
Update(d, items, k) ==
    IF k = 0 THEN d ELSE SetItem(Update(d, items, k - 1), items[k])

sleepfm_group_without_merge(cfg, modality) ==
    IF modality = "EEG" THEN "BAS" ELSE modality

\* self.modalities[modality]['sleepfm_group']
sleepfm_group(cfg, modality) ==
    cfg.modalities[CHOOSE k \in DOMAIN cfg.modalities :
                       cfg.modalities[k].modality = modality].sleepfm_group

\* the loop of get_sleepfm_groups over the first k modalities of the input
RECURSIVE MergeGroups(_, _, _)
MergeGroups(cfg, modality_grouped, k) ==
    IF k = 0 THEN <<>>
    ELSE LET before == MergeGroups(cfg, modality_grouped, k - 1)
             group == sleepfm_group(cfg, modality_grouped[k].key)
             channels == modality_grouped[k].channels
         IN  IF HasKey(before, group)
             THEN [i \in DOMAIN before |->
                     IF before[i].key = group
                     THEN [key |-> group,
                           channels |-> Update(before[i].channels, channels,
                                               Len(channels))]
                     ELSE before[i]]
             ELSE Append(before, [key |-> group, channels |-> channels])

get_sleepfm_groups(cfg, modality_grouped) ==
    MergeGroups(cfg, modality_grouped, Len(modality_grouped))

\* {modality: len(channels) > 0 for modality, channels in grouped.items()}
get_modality_availability(cfg, detected_channels) ==
    LET grouped == group_channels_by_modality(cfg, detected_channels)
    IN  [i \in DOMAIN grouped |->
            [modality |-> grouped[i].key,
             available |-> Len(grouped[i].channels) > 0]]

\* [mod for mod, avail in availability.items() if not avail]
get_missing_modalities(cfg, detected_channels) ==
    LET flags == get_modality_availability(cfg, detected_channels)
        NotAvailable(f) == ~f.available
        absent == SelectSeq(flags, NotAvailable)
    IN  [i \in DOMAIN absent |-> absent[i].modality]

\* the first loop of _apply_sleepfm_limits: the SleepFM modality of a name
\* ("" when no branch of the if/elif chain takes it)
sleepfm_modality_of(groups, std_name) ==
    CASE std_name \in Range(Keys(GetOrEmpty(groups, "EEG")))
            \/ std_name \in Range(Keys(GetOrEmpty(groups, "EOG"))) -> "BAS"
      [] std_name \in Range(Keys(GetOrEmpty(groups, "ECG"))) -> "EKG"
      [] std_name \in Range(Keys(GetOrEmpty(groups, "EMG"))) -> "EMG"
      [] std_name \in Range(Keys(GetOrEmpty(groups, "RESP"))) -> "RESP"
      [] OTHER -> ""

\* sleepfm_groups[group]: the names of the mapping appended in its order
sleepfm_group_channels(mapping, groups, group) ==
    LET InGroup(name) == sleepfm_modality_of(groups, name) = group
    IN  SelectSeq(Keys(mapping), InGroup)

\* sleepfm_modalities[group].get('priority_order', [])
priority_order(cfg, group) ==
    IF "priority_order" \in DOMAIN cfg.sleepfm_modalities[group]
    THEN cfg.sleepfm_modalities[group].priority_order
    ELSE <<>>

\* priority channels that are present, then the remaining channels
prioritized(order, channels) ==
    LET Present(ch) == ch \in Range(channels)
        first == SelectSeq(order, Present)
        NotYet(ch) == ch \notin Range(first)
    IN  first \o SelectSeq(channels, NotYet)

keep_all_but_last(seq, max_channels) ==
    SubSeq(seq, 1, Len(seq) - 1)

\* prioritized[:max_channels]
keep_top(seq, max_channels) ==
    SubSeq(seq, 1, Min(max_channels, Len(seq)))

\* the channels a SleepFM modality keeps
limited_channels(cfg, mapping, groups, group) ==
    LET channels == sleepfm_group_channels(mapping, groups, group)
        max_channels == cfg.sleepfm_modalities[group].max_channels
    IN  IF Len(channels) > max_channels
        THEN keep_top(prioritized(priority_order(cfg, group), channels),
                      max_channels)
        ELSE channels

\* channel_mapping[ch]
RawNameIn(mapping, ch) ==
    mapping[CHOOSE i \in DOMAIN mapping : mapping[i].standard_name = ch].found_name

\* the second loop over the first k SleepFM modalities
RECURSIVE LimitGroups(_, _, _, _)
LimitGroups(cfg, mapping, groups, k) ==
    IF k = 0 THEN <<>>
    ELSE LET kept == limited_channels(cfg, mapping, groups, SleepfmNames[k])
             items == [i \in DOMAIN kept |->
                          [standard_name |-> kept[i],
                           found_name |-> RawNameIn(mapping, kept[i])]]
         IN  Update(LimitGroups(cfg, mapping, groups, k - 1), items, Len(items))

apply_sleepfm_limits(cfg, mapping, groups) ==
    LimitGroups(cfg, mapping, groups, Len(SleepfmNames))

\* a ModalityDetector and a SignalProcessor constructed over a configuration
InitGroups ==
    /\ pc = "configured"
    /\ config \in ModalityConfigs
    /\ available_channels = <<>>
    /\ detected = <<>>
    /\ AnnotIdle
    /\ AdapterIdle
    /\ GroupIdle
    /\ EdfIdle
    /\ NormIdle
    /\ BatchIdle

GroupsUnchanged ==
    UNCHANGED <<stages, stage_array, edf, sync_result, synced_array,
                adapter_vars, channel_vars, edf_vars, norm_vars, batch_vars>>

GroupChannelsByModality ==
    /\ pc = "configured"
    /\ \E mapping \in ChannelMappings :
          /\ channel_mapping' = mapping
          /\ modality_groups' = group_channels_by_modality(config, mapping)
    /\ pc' = "grouped"
    /\ UNCHANGED <<sleepfm_grouped, availability, missing, filtered_channels>>
    /\ GroupsUnchanged

GetSleepfmGroups ==
    /\ pc = "grouped"
    /\ sleepfm_grouped' = get_sleepfm_groups(config, modality_groups)
    /\ pc' = "collapsed"
    /\ UNCHANGED <<channel_mapping, modality_groups, availability, missing,
                   filtered_channels>>
    /\ GroupsUnchanged

GetModalityAvailability ==
    /\ pc = "grouped"
    /\ availability' = get_modality_availability(config, channel_mapping)
    /\ pc' = "flagged"
    /\ UNCHANGED <<channel_mapping, modality_groups, sleepfm_grouped, missing,
                   filtered_channels>>
    /\ GroupsUnchanged

GetMissingModalities ==
    /\ pc = "grouped"
    /\ missing' = get_missing_modalities(config, channel_mapping)
    /\ pc' = "listed"
    /\ UNCHANGED <<channel_mapping, modality_groups, sleepfm_grouped,
                   availability, filtered_channels>>
    /\ GroupsUnchanged

ApplySleepfmLimits ==
    /\ pc = "grouped"
    /\ filtered_channels' =
          apply_sleepfm_limits(config, channel_mapping, modality_groups)
    /\ pc' = "limited"
    /\ UNCHANGED <<channel_mapping, modality_groups, sleepfm_grouped,
                   availability, missing>>
    /\ GroupsUnchanged

NextGroups ==
    \/ GroupChannelsByModality
    \/ GetSleepfmGroups
    \/ GetModalityAvailability
    \/ GetMissingModalities
    \/ ApplySleepfmLimits

SpecGroups == InitGroups /\ [][NextGroups]_vars

----------------------------------------------------------------------------
(* Notions the modality claims are stated with *)

\* the items of a channel dict, without their order
Items(d) == {<<d[i].standard_name, d[i].found_name>> : i \in DOMAIN d}

\* the first n elements of a sequence
FirstN(seq, n) == SubSeq(seq, 1, Min(n, Len(seq)))

\* the standard names of the mapping that belong to an output group, in the
\* order of the mapping
PresentIn(group) ==
    LET InGroup(name) ==
            \E i \in DOMAIN modality_groups :
                /\ SleepfmGroupOf[modality_groups[i].key] = group
                /\ name \in Range(Keys(modality_groups[i].channels))
    IN  SelectSeq(Keys(channel_mapping), InGroup)

\* the channels of the result that belong to an output group
RetainedIn(group) == {ch \in Range(Keys(filtered_channels)) : ch \in Range(PresentIn(group))}

\* the priority-list channels that are present, in priority order, followed
\* by the present channels that are not in the list
ByPriority(group) ==
    LET order == priority_order(config, group)
        present == PresentIn(group)
        IsPresent(ch) == ch \in Range(present)
        Unlisted(ch) == ch \notin Range(order)
    IN  SelectSeq(order, IsPresent) \o SelectSeq(present, Unlisted)

CapOf(group) == config.sleepfm_modalities[group].max_channels

----------------------------------------------------------------------------
(* C11 *)

\* C11: after _apply_sleepfm_limits every output group holds at most its
\* max_channels; a group that exceeded its cap retains exactly the first
\* max_channels of (present priority channels in priority order, then the
\* present channels outside the priority list); a group within its cap keeps
\* all its channels.
C11_GroupsWithinCapByPriority ==
    pc = "limited" =>
        \A group \in Range(SleepfmNames) :
            /\ Cardinality(RetainedIn(group)) <= CapOf(group)
            /\ IF Len(PresentIn(group)) > CapOf(group)
               THEN RetainedIn(group) = Range(FirstN(ByPriority(group), CapOf(group)))
               ELSE RetainedIn(group) = Range(PresentIn(group))

\* a group over its cap whose priority list decides what is dropped
C11_Witness ==
    /\ pc = "limited"
    /\ Len(PresentIn("BAS")) = 3
    /\ CapOf("BAS") = 2
    /\ priority_order(config, "BAS") = <<"LOC", "C3-M2">>
    /\ Keys(channel_mapping) = <<"C3-M2", "C4-M1", "LOC">>
    /\ RetainedIn("BAS") = {"LOC", "C3-M2"}

----------------------------------------------------------------------------
(* C12 *)

\* every item of every family of a dict of channel dicts
AllItems(dd) == UNION {Items(dd[i].channels) : i \in DOMAIN dd}

\* no standard name under two keys, no key twice
Disjoint(dd) ==
    \A i, j \in DOMAIN dd :
        i # j => /\ dd[i].key # dd[j].key
                 /\ Range(Keys(dd[i].channels)) \cap Range(Keys(dd[j].channels)) = {}

\* C12: the families returned by group_channels_by_modality are pairwise
\* disjoint, none is empty, and together they hold exactly the entries of
\* the input mapping, each with its raw label.
C12_FamiliesPartitionTheMapping ==
    pc = "grouped" =>
        /\ Disjoint(modality_groups)
        /\ \A i \in DOMAIN modality_groups : modality_groups[i].channels # <<>>
        /\ AllItems(modality_groups) = Items(channel_mapping)

----------------------------------------------------------------------------
(* C13 *)

\* C13: each output group returned by get_sleepfm_groups holds exactly the
\* channels of the families assigned to it (EEG and EOG to BAS), no channel
\* of the families is lost or in two groups, and no group is empty.
C13_GroupsAreUnionsOfFamilies ==
    pc = "collapsed" =>
        /\ \A i \in DOMAIN sleepfm_grouped :
              /\ sleepfm_grouped[i].channels # <<>>
              /\ Items(sleepfm_grouped[i].channels) =
                    UNION {Items(modality_groups[k].channels) :
                              k \in {j \in DOMAIN modality_groups :
                                        SleepfmGroupOf[modality_groups[j].key]
                                            = sleepfm_grouped[i].key}}
        /\ Disjoint(sleepfm_grouped)
        /\ AllItems(sleepfm_grouped) = AllItems(modality_groups)
        /\ \A k \in DOMAIN modality_groups :
              HasKey(sleepfm_grouped, SleepfmGroupOf[modality_groups[k].key])

\* EEG and EOG channels merged into BAS, and Thor and ABD alone in RESP
C13_Witness ==
    /\ pc = "collapsed"
    /\ HasKey(modality_groups, "EEG")
    /\ HasKey(modality_groups, "EOG")
    /\ Range(Keys(GetOrEmpty(sleepfm_grouped, "BAS"))) = {"C3-M2", "LOC"}
    /\ Keys(channel_mapping) = <<"Thor", "C3-M2", "LOC">>
    /\ Len(sleepfm_grouped) = 2

\* detected Thor and ABD give a RESP group of exactly those two channels
C13_RespReached ==
    /\ pc = "collapsed"
    /\ Range(Keys(channel_mapping)) = {"Thor", "ABD", "EKG"}
    /\ Range(Keys(GetOrEmpty(sleepfm_grouped, "RESP"))) = {"Thor", "ABD"}

----------------------------------------------------------------------------
(* C14 *)

\* the configured modalities with at least one channel of the mapping
HasChannel(modality) ==
    \E i \in DOMAIN modality_groups :
        modality_groups[i].key = modality /\ modality_groups[i].channels # <<>>

\* C14: get_modality_availability holds a flag for every configured
\* modality, True exactly when a detected channel belongs to it, and
\* get_missing_modalities lists exactly the configured modalities without a
\* detected channel.
C14_FlagsForEveryModality ==
    /\ pc = "flagged" =>
          /\ {availability[i].modality : i \in DOMAIN availability}
                = Range(ModalityNames)
          /\ \A i \in DOMAIN availability :
                availability[i].available <=> HasChannel(availability[i].modality)
    /\ pc = "listed" =>
          Range(missing) = {m \in Range(ModalityNames) : ~HasChannel(m)}

----------------------------------------------------------------------------
(* SignalProcessor: the per-channel chain and process_edf.  In this part a  *)
(* signal is its length and the list of the transformations applied to it:  *)
(* the sample values are followed in the normalization part below.          *)
(* Frequencies are whole hundredths of a hertz, sampling rates whole hertz.  *)

MaxChNames == 2

TARGET_SR == 128

\* hundredths of a hertz in one hertz
PerHz == 100

\* FILTER_PARAMS, low and high in hundredths of a hertz
FILTER_PARAMS ==
    [EEG |-> [low |-> 30, high |-> 3500, order |-> 4],
     EOG |-> [low |-> 30, high |-> 3500, order |-> 4],
     ECG |-> [low |-> 50, high |-> 4500, order |-> 4],
     EMG |-> [low |-> 1000, high |-> 10000, order |-> 4],
     RESP |-> [low |-> 5, high |-> 200, order |-> 4]]

Max(a, b) == IF a > b THEN a ELSE b

\* parts of one in which a normalised cutoff is expressed at rate sr: a
\* cutoff f / (sr / 2.0), f in hundredths of a hertz, is 2000 * f parts
NormParts(sr) == 1000 * PerHz * sr

\* low / nyquist, high / nyquist
normalised_cutoff(f, sr) == 2 * 1000 * f

\* max(0.001, min(x, 0.999))
clipped_cutoff(x, sr) ==
    Max(NormParts(sr) \div 1000, Min(x, 999 * (NormParts(sr) \div 1000)))

\* low_norm >= high_norm after clipping
invalid_filter_range(sr, low, high) ==
    clipped_cutoff(normalised_cutoff(low, sr), sr)
        >= clipped_cutoff(normalised_cutoff(high, sr), sr)

\* a signal as read from the recording
RawSignal(n) == [length |-> n, applied |-> <<>>]

Applied(signal, step) == [signal EXCEPT !.applied = Append(@, step)]

bandpass_filter_always(signal, sr, low, high, filtfilt_raises) ==
    Applied(signal, "filtfilt")

\* _bandpass_filter: the input itself when the range is invalid or butter /
\* filtfilt raises
bandpass_filter(signal, sr, low, high, filtfilt_raises) ==
    IF invalid_filter_range(sr, low, high) THEN signal
    ELSE IF filtfilt_raises THEN signal
    ELSE Applied(signal, "filtfilt")

target_length_by_inverse_ratio(original_length, original_sr, target_sr) ==
    (original_length * original_sr) \div target_sr

\* int(duration * target_sr) with duration = original_length / original_sr;
\* target_sr is a power of two, so the product is exact and the float
\* quotient cannot cross a multiple of 1 / target_sr
target_length(original_length, original_sr, target_sr) ==
    (original_length * target_sr) \div original_sr

resample_signal(signal, original_sr, target_sr) ==
    [length |-> target_length(signal.length, original_sr, target_sr),
     applied |-> Append(signal.applied, "interp1d")]

\* np.min raises on an array without elements
normalize_raises(signal) == signal.length = 0

\* _process_channel raises: the label is not in raw.ch_names, reading the
\* samples fails, or the normalization step raises
process_channel_raises(rec, channel_name, modality, broken, filtfilt_raises) ==
    \/ channel_name \notin Range(rec.ch_names)
    \/ channel_name \in broken
    \/ normalize_raises(
          IF rec.sfreq # TARGET_SR
          THEN resample_signal(RawSignal(rec.n_times), rec.sfreq, TARGET_SR)
          ELSE RawSignal(rec.n_times))

\* _process_channel when it returns
process_channel(rec, channel_name, modality, filtfilt_raises) ==
    LET signal_data == RawSignal(rec.n_times)
        filtered == IF modality \in DOMAIN FILTER_PARAMS
                    THEN bandpass_filter(signal_data, rec.sfreq,
                                         FILTER_PARAMS[modality].low,
                                         FILTER_PARAMS[modality].high,
                                         filtfilt_raises)
                    ELSE signal_data
        resampled == IF rec.sfreq # TARGET_SR
                     THEN resample_signal(filtered, rec.sfreq, TARGET_SR)
                     ELSE filtered
    IN  Applied(Applied(resampled, "zscore"), "float16")

\* the name-based fallback of _get_channel_modality on the standard names
\* of the model
modality_by_name(std_name) ==
    CASE std_name \in {"C3-M2", "C4-M1"} -> "EEG"
      [] std_name = "LOC" -> "EOG"
      [] std_name = "EKG" -> "ECG"
      [] std_name = "CHIN" -> "EMG"
      [] std_name \in {"Thor", "ABD"} -> "RESP"
      [] OTHER -> "EEG"

get_channel_modality(std_name, groups) ==
    LET hits == {i \in DOMAIN groups : std_name \in Range(Keys(groups[i].channels))}
    IN  IF hits # {} THEN groups[FirstIndex(hits)].key
        ELSE modality_by_name(std_name)

LabelCHIN == <<"C", "H", "I", "N">>

LabelChin == <<"C", "h", "i", "n">>

\* channel definitions and modality tables of one configuration
EdfConfigs ==
    {[channel_alternatives |->
          <<[standard_name |-> "C3-M2", alternatives |-> <<LabelC3>>],
            [standard_name |-> "CHIN", alternatives |-> <<LabelCHIN>>]>>,
      channel_priority |-> <<>>,
      modalities |-> m.modalities,
      sleepfm_modalities |-> m.sleepfm_modalities] :
        m \in {c \in ModalityConfigs :
                  /\ c.modalities[2].channels = BaseChannels["EOG"]
                  /\ c.modalities[1].channels = BaseChannels["EEG"]
                  /\ c.sleepfm_modalities \in
                        {NoPriorityOrder(PaperCaps),
                         NoPriorityOrder([g \in Range(SleepfmNames) |-> 0])}}}

\* labels of the recordings
EdfLabels == {LabelC3, LabelChin, LabelC3M}

\* sample counts and sampling rates of the recordings
SampleCounts == {1, 2, 25, 7372800}

NativeRates == {16, 100, TARGET_SR, 256}

Recordings ==
    {[readable |-> TRUE, ch_names |-> names, n_times |-> n, sfreq |-> sr] :
        names \in {t \in SeqsUpTo(EdfLabels, MaxChNames) :
                      \A i, j \in DOMAIN t : t[i] = t[j] => i = j},
        n \in SampleCounts, sr \in NativeRates}
    \cup {[readable |-> FALSE, ch_names |-> <<>>, n_times |-> 0, sfreq |-> 1]}

\* the channel_mapping argument: None, or a precomputed mapping
NoMapping == [given |-> FALSE, mapping |-> <<>>]

GivenMappings ==
    {[given |-> TRUE, mapping |-> m] :
        m \in {<<>>,
               <<[standard_name |-> "C3-M2", found_name |-> LabelC3]>>,
               <<[standard_name |-> "C3-M2", found_name |-> LabelC3],
                 [standard_name |-> "CHIN", found_name |-> LabelChin]>>,
               <<[standard_name |-> "CHIN", found_name |-> LabelChin],
                 [standard_name |-> "C3-M2", found_name |-> LabelC3M]>>}}

\* the items of processed_channels: name, array and normalization stats
ProcessedChannel(std_name, signal) ==
    [standard_name |-> std_name, signal |-> signal]

\* the loop over channel_mapping.items(): a channel whose processing raises
\* is skipped
RECURSIVE ProcessChannels(_, _, _, _, _, _)
ProcessChannels(rec, mapping, groups, broken, filtfilt_raises, k) ==
    IF k = 0 THEN <<>>
    ELSE LET before == ProcessChannels(rec, mapping, groups, broken,
                                       filtfilt_raises, k - 1)
             std_name == mapping[k].standard_name
             raw_name == mapping[k].found_name
             modality == get_channel_modality(std_name, groups)
         IN  IF process_channel_raises(rec, raw_name, modality, broken,
                                       filtfilt_raises)
             THEN before
             ELSE Append(before,
                         ProcessedChannel(std_name,
                             process_channel(rec, raw_name, modality,
                                             filtfilt_raises)))

\* the dicts process_edf returns
EdfFailure(error, found) ==
    [success |-> FALSE, error |-> error, channels_found |-> found]

\* the success record: duration_hours is the length of the first processed
\* array over 128 * 3600, output_size_mb the size of the written file
EdfSuccess(processed, found) ==
    [success |-> TRUE,
     channels_processed |-> Len(processed),
     channels_found |-> found,
     duration_hours |-> [samples |-> processed[1].signal.length,
                         per_hour |-> TARGET_SR * 3600],
     output_size_mb |-> "st_size"]

\* the HDF5 file: one dataset per channel
Hdf5File(channels) == [exists |-> TRUE, data |-> channels]

\* normalization_stats[std_name] = stats, set together with
\* processed_channels[std_name]: the stats dict of _normalize_signal
normalization_stats(processed) ==
    [i \in DOMAIN processed |->
        [standard_name |-> processed[i].standard_name,
         stats |-> {"mean", "std", "min", "max"}]]

\* the attributes _save_hdf5 writes after the datasets; signal_data is the
\* last array of the loop over channels
Hdf5Attrs(channels, stats_dict, rec, num_channels) ==
    [sampling_rate |-> TARGET_SR,
     duration_seconds |-> [samples |-> channels[Len(channels)].signal.length,
                           per_second |-> TARGET_SR],
     num_channels |-> num_channels,
     original_sfreq |-> rec.sfreq,
     normalization_stats |-> stats_dict,
     channel_names |-> [i \in DOMAIN channels |-> channels[i].standard_name]]

\* mutant of save_hdf5: num_channels counts the channels of the recording
save_hdf5_counting_raw_channels(channels, stats_dict, rec) ==
    [exists |-> TRUE, data |-> channels,
     attrs |-> Hdf5Attrs(channels, stats_dict, rec, Len(rec.ch_names))]

\* _save_hdf5: the datasets and the attributes, num_channels = len(channels)
save_hdf5(channels, stats_dict, rec) ==
    [exists |-> TRUE, data |-> channels,
     attrs |-> Hdf5Attrs(channels, stats_dict, rec, Len(channels))]

success_without_saving(processed, save_raises) == processed # <<>>

\* the end of process_edf: success when a channel was processed and
\* _save_hdf5 returned
edf_succeeds(processed, save_raises) == processed # <<>> /\ ~save_raises

process_edf(rec, arg, broken, filtfilt_raises, save_raises) ==
    LET mapping == IF arg.given THEN arg.mapping
                   ELSE detect_channels_from_list(config, rec.ch_names)
        groups == group_channels_by_modality(config, mapping)
        limited == apply_sleepfm_limits(config, mapping, groups)
        processed == ProcessChannels(rec, limited, groups, broken,
                                     filtfilt_raises, Len(limited))
    IN  /\ raw' = rec
        /\ faults' = [broken |-> broken, filtfilt_raises |-> filtfilt_raises,
                      save_raises |-> save_raises]
        /\ pc' = "returned"
        /\ IF ~rec.readable
           THEN /\ result' = EdfFailure("exception", 0)
                /\ UNCHANGED <<channel_mapping, modality_groups,
                               filtered_channels, processed_channels,
                               output_file>>
           ELSE IF mapping = <<>>
           THEN /\ result' = EdfFailure("No recognized channels", 0)
                /\ channel_mapping' = mapping
                /\ UNCHANGED <<modality_groups, filtered_channels,
                               processed_channels, output_file>>
           ELSE IF limited = <<>>
           THEN /\ result' = EdfFailure("No channels after filtering", 0)
                /\ channel_mapping' = mapping
                /\ modality_groups' = groups
                /\ filtered_channels' = limited
                /\ UNCHANGED <<processed_channels, output_file>>
           ELSE /\ channel_mapping' = mapping
                /\ modality_groups' = groups
                /\ filtered_channels' = limited
                /\ processed_channels' = processed
                /\ IF processed = <<>>
                   THEN /\ result' = EdfFailure("No channels processed",
                                                Len(limited))
                        /\ UNCHANGED output_file
                   ELSE IF edf_succeeds(processed, save_raises)
                   THEN /\ result' = EdfSuccess(processed, Len(limited))
                        /\ output_file' =
                             save_hdf5(processed,
                                       normalization_stats(processed), rec)
                   ELSE /\ result' = EdfFailure("exception", 0)
                        /\ output_file' = Hdf5File(<<>>)

\* a SignalProcessor constructed over a configuration
InitEdf ==
    /\ pc = "idle"
    /\ config \in EdfConfigs
    /\ available_channels = <<>>
    /\ detected = <<>>
    /\ AnnotIdle
    /\ AdapterIdle
    /\ LaterIdle

ProcessEdf ==
    /\ pc = "idle"
    /\ \E rec \in Recordings, arg \in {NoMapping} \cup GivenMappings,
          filtfilt_raises \in BOOLEAN, save_raises \in BOOLEAN :
          \E broken \in SUBSET Range(rec.ch_names) :
              process_edf(rec, arg, broken, filtfilt_raises, save_raises)
    /\ UNCHANGED <<stages, stage_array, edf, sync_result, synced_array>>
    /\ UNCHANGED <<dataset, annotation_file, validate_sync>>
    /\ UNCHANGED <<channel_vars, sleepfm_grouped, availability, missing>>
    /\ UNCHANGED <<norm_vars, batch_vars>>

NextEdf == ProcessEdf

SpecEdf == InitEdf /\ [][NextEdf]_vars

----------------------------------------------------------------------------
(* Notions the signal claims are stated with *)

\* process_edf returned a success record
EdfSucceeded == pc = "returned" /\ raw # NoRecording /\ result.success

\* the arrays of the written container
Written == output_file.data

\* round(a / b), halves to the even neighbour
RoundDiv(a, b) ==
    LET q == a \div b
        r == a % b
    IN  IF 2 * r < b THEN q
        ELSE IF 2 * r > b THEN q + 1
        ELSE IF q % 2 = 0 THEN q ELSE q + 1

\* round(duration_seconds * 128), duration_seconds = n_times / sfreq
ExpectedSamples == RoundDiv(raw.n_times * TARGET_SR, raw.sfreq)

----------------------------------------------------------------------------
(* C15 *)

\* C15: all channel arrays written for one recording have the same length,
\* and that length is within one sample of round(duration_seconds * 128).
C15_WrittenLengthsAgree ==
    EdfSucceeded =>
        \A i \in DOMAIN Written :
            /\ \A j \in DOMAIN Written :
                  Written[i].signal.length = Written[j].signal.length
            /\ Abs(Written[i].signal.length - ExpectedSamples) <= 1

\* 28,800 s recorded at 256 Hz: two channels of 3,686,400 samples each
C15_Witness ==
    /\ EdfSucceeded
    /\ raw.sfreq = 256
    /\ raw.n_times = 28800 * 256
    /\ Len(Written) = 2
    /\ \A i \in DOMAIN Written : Written[i].signal.length = 3686400

\* a rate that does not divide the sample count: 25 samples at 100 Hz
C15_RoundedDownReached ==
    /\ EdfSucceeded
    /\ raw.sfreq = 100
    /\ raw.n_times = 25
    /\ \A i \in DOMAIN Written : Written[i].signal.length = 32

----------------------------------------------------------------------------
(* _normalize_signal on sample values.  The arithmetic is binary floating   *)
(* point with a short significand: a finite number is m * 2^e with          *)
(* m < 2^Precision and 0 <= e <= MaxExponent, every operation rounds its    *)
(* exact result to the nearest number of the format (halves to the even     *)
(* significand) and a result beyond the largest number is infinite.  NaN    *)
(* and the infinities follow IEEE 754.                                      *)

MaxSamples == 3

Precision == 3

MaxExponent == 4

RECURSIVE Pow2(_)
Pow2(n) == IF n = 0 THEN 1 ELSE 2 * Pow2(n - 1)

\* the magnitudes of the finite numbers
Magnitudes ==
    {m * Pow2(e) : m \in 0..(Pow2(Precision) - 1), e \in 0..MaxExponent}

\* the magnitude after the largest finite one: what rounds to it is infinite
Overflow == Pow2(Precision + MaxExponent)

Fin(v) == [k |-> "fin", v |-> v]

NaN == [k |-> "nan", v |-> 0]

\* +Inf and -Inf are Inf(1) and Inf(-1)
Inf(sign) == [k |-> "inf", v |-> sign]

Sign(v) == IF v < 0 THEN 0 - 1 ELSE 1

\* the neighbours of an exact value among the magnitudes and Overflow
Below(S, num, den) == LastIndex({f \in S : f * den <= num})

Above(S, num, den) == FirstIndex({f \in S : f * den >= num})

\* the one of two neighbouring magnitudes with the even significand
EvenOf(lo, hi) == IF (lo \div (hi - lo)) % 2 = 0 THEN lo ELSE hi

\* the magnitude nearest to num / den >= 0
RoundMagnitude(num, den) ==
    LET S == Magnitudes \cup {Overflow}
    IN  IF num >= Overflow * den THEN Overflow
        ELSE LET lo == Below(S, num, den)
                 hi == Above(S, num, den)
             IN  IF lo = hi THEN lo
                 ELSE IF 2 * num < (lo + hi) * den THEN lo
                 ELSE IF 2 * num > (lo + hi) * den THEN hi
                 ELSE EvenOf(lo, hi)

\* the number of the format nearest to num / den, den > 0
Round(num, den) ==
    LET mag == RoundMagnitude(Abs(num), den)
    IN  IF mag = Overflow THEN Inf(Sign(num)) ELSE Fin(Sign(num) * mag)

\* the magnitude nearest to the square root of v >= 0
SqrtMagnitude(v) ==
    LET lo == LastIndex({f \in Magnitudes : f * f <= v})
        hi == FirstIndex({f \in Magnitudes \cup {Overflow} : f * f >= v})
    IN  IF lo = hi THEN lo
        ELSE IF 4 * v < (lo + hi) * (lo + hi) THEN lo
        ELSE IF 4 * v > (lo + hi) * (lo + hi) THEN hi
        ELSE EvenOf(lo, hi)

FNeg(a) == IF a.k = "nan" THEN NaN ELSE [a EXCEPT !.v = 0 - @]

FAdd(a, b) ==
    CASE a.k = "nan" \/ b.k = "nan" -> NaN
      [] a.k = "inf" /\ b.k = "inf" -> IF a.v = b.v THEN a ELSE NaN
      [] a.k = "inf" -> a
      [] b.k = "inf" -> b
      [] OTHER -> Round(a.v + b.v, 1)

FSub(a, b) == FAdd(a, FNeg(b))

FMul(a, b) ==
    CASE a.k = "nan" \/ b.k = "nan" -> NaN
      [] a.k = "inf" \/ b.k = "inf" ->
            IF a.v = 0 \/ b.v = 0 THEN NaN ELSE Inf(Sign(a.v) * Sign(b.v))
      [] OTHER -> Round(a.v * b.v, 1)

FDiv(a, b) ==
    CASE a.k = "nan" \/ b.k = "nan" -> NaN
      [] a.k = "inf" /\ b.k = "inf" -> NaN
      [] a.k = "inf" -> Inf(Sign(a.v) * Sign(b.v))
      [] b.k = "inf" -> Fin(0)
      [] b.v = 0 -> IF a.v = 0 THEN NaN ELSE Inf(Sign(a.v))
      [] OTHER -> Round(Sign(b.v) * a.v, Abs(b.v))

FSqrt(a) ==
    CASE a.k = "nan" -> NaN
      [] a.k = "inf" -> IF a.v > 0 THEN a ELSE NaN
      [] a.v < 0 -> NaN
      [] OTHER -> Fin(SqrtMagnitude(a.v))

isnan(a) == a.k = "nan"

isinf(a) == a.k = "inf"

\* a < b on numbers that are not NaN
FLess(a, b) ==
    CASE a.k = "inf" -> a.v < 0 /\ b # a
      [] b.k = "inf" -> b.v > 0
      [] OTHER -> a.v < b.v

\* np.sum of up to k leading elements: added one after the other
RECURSIVE np_sum(_, _)
np_sum(x, k) ==
    IF k = 0 THEN Fin(0)
    ELSE IF k = 1 THEN x[1]
    ELSE FAdd(np_sum(x, k - 1), x[k])

\* np.mean: the sum divided by the number of elements (0 / 0 on an empty one)
np_mean(x) == FDiv(np_sum(x, Len(x)), Fin(Len(x)))

\* np.std: the root of the mean squared deviation from np.mean
np_std(x) ==
    LET mean == np_mean(x)
        squares == [i \in 1..Len(x) |->
                        FMul(FSub(x[i], mean), FSub(x[i], mean))]
    IN  FSqrt(np_mean(squares))

\* np.min and np.max of a non-empty array: NaN as soon as one element is NaN
np_min(x) ==
    IF \E i \in 1..Len(x) : isnan(x[i]) THEN NaN
    ELSE CHOOSE m \in Range(x) : \A o \in Range(x) : ~FLess(o, m)

np_max(x) ==
    IF \E i \in 1..Len(x) : isnan(x[i]) THEN NaN
    ELSE CHOOSE m \in Range(x) : \A o \in Range(x) : ~FLess(m, o)

\* np.nan_to_num that leaves +Inf in place
nan_to_num_keeping_posinf(x, nan, posinf, neginf) ==
    [i \in 1..Len(x) |->
        CASE isnan(x[i]) -> nan
          [] isinf(x[i]) /\ x[i].v < 0 -> neginf
          [] OTHER -> x[i]]

\* np.nan_to_num(x, nan=, posinf=, neginf=)
nan_to_num(x, nan, posinf, neginf) ==
    [i \in 1..Len(x) |->
        CASE isnan(x[i]) -> nan
          [] isinf(x[i]) -> IF x[i].v > 0 THEN posinf ELSE neginf
          [] OTHER -> x[i]]

\* the std == 0 or isnan(std) or isinf(std) test
std_is_invalid(std) == std = Fin(0) \/ isnan(std) \/ isinf(std)

CLIP == 10

\* _normalize_signal: np.min raises on an empty array
normalize_signal_raises(signal_data) == Len(signal_data) = 0

normalize_signal(signal_data) ==
    LET mean == np_mean(signal_data)
        std == np_std(signal_data)
        centred == [i \in 1..Len(signal_data) |-> FSub(signal_data[i], mean)]
        scaled == IF std_is_invalid(std) THEN centred
                  ELSE [i \in 1..Len(signal_data) |-> FDiv(centred[i], std)]
        clean == IF \E i \in 1..Len(scaled) : isnan(scaled[i]) \/ isinf(scaled[i])
                 THEN nan_to_num(scaled, Fin(0), Fin(CLIP), Fin(0 - CLIP))
                 ELSE scaled
    IN  [normalized |-> clean,
         stats |-> [mean |-> mean,
                    std |-> IF std_is_invalid(std) THEN Fin(1) ELSE std,
                    min |-> np_min(signal_data),
                    max |-> np_max(signal_data)]]

\* the sample values tried: the special values, zero, and finite numbers
\* small and large for the format
SampleValues ==
    {NaN, Inf(1), Inf(0 - 1), Fin(0), Fin(5), Fin(12), Fin(0 - 12),
     Fin(7 * Pow2(MaxExponent))}

SampleArrays ==
    UNION {[1..n -> SampleValues] : n \in 0..MaxSamples}

InitNorm ==
    /\ pc = "signal"
    /\ samples \in SampleArrays
    /\ normalized = <<>>
    /\ norm_stats = None
    /\ AnnotIdle
    /\ AdapterIdle
    /\ ChannelIdle
    /\ GroupIdle
    /\ EdfIdle
    /\ BatchIdle

NormalizeSignal ==
    /\ pc = "signal"
    /\ IF normalize_signal_raises(samples)
       THEN /\ pc' = "raised"
            /\ UNCHANGED <<normalized, norm_stats>>
       ELSE /\ pc' = "normalized"
            /\ normalized' = normalize_signal(samples).normalized
            /\ norm_stats' = normalize_signal(samples).stats
    /\ UNCHANGED <<stages, stage_array, edf, sync_result, synced_array>>
    /\ UNCHANGED <<samples, adapter_vars, channel_vars, group_vars, edf_vars>>
    /\ UNCHANGED batch_vars

NextNorm == NormalizeSignal

SpecNorm == InitNorm /\ [][NextNorm]_vars

\* the signal is constant: one finite value in every sample
IsConstant(x) ==
    /\ Len(x) > 0
    /\ x[1].k = "fin"
    /\ \A i \in 1..Len(x) : x[i] = x[1]

\* C16: a constant signal comes back as all zeros with std reported as 1
\* and its own value as mean, min and max, and a signal whose computed
\* std is NaN or infinite comes back mean-centred (then cleaned of NaN and
\* infinities) with std reported as 1
C16_ConstantSignalIsCentred ==
    pc = "normalized" =>
        /\ IsConstant(samples) =>
              /\ \A i \in 1..Len(normalized) : normalized[i] = Fin(0)
              /\ norm_stats = [mean |-> samples[1], std |-> Fin(1),
                               min |-> samples[1], max |-> samples[1]]
        /\ (isnan(np_std(samples)) \/ isinf(np_std(samples))) =>
              /\ norm_stats.std = Fin(1)
              /\ normalized =
                    nan_to_num([i \in 1..Len(samples) |->
                                   FSub(samples[i], np_mean(samples))],
                               Fin(0), Fin(CLIP), Fin(0 - CLIP))

\* C17: the returned signal holds no NaN and no infinity (a NaN became 0,
\* +Inf became 10, -Inf became -10), and the step raises on no input that
\* has a sample
C17_NormalizedIsFinite ==
    /\ pc = "normalized" =>
          /\ Len(normalized) = Len(samples)
          /\ \A i \in 1..Len(normalized) :
                /\ normalized[i].k = "fin"
                /\ LET before == IF std_is_invalid(np_std(samples))
                                 THEN FSub(samples[i], np_mean(samples))
                                 ELSE FDiv(FSub(samples[i], np_mean(samples)),
                                           np_std(samples))
                   IN  /\ isnan(before) => normalized[i] = Fin(0)
                       /\ before = Inf(1) => normalized[i] = Fin(CLIP)
                       /\ before = Inf(0 - 1) => normalized[i] = Fin(0 - CLIP)
    /\ pc = "raised" => samples = <<>>

\* a signal with an infinite sample has been normalized: the sample itself
\* became NaN and then 0, a finite one became +Inf and then 10
C17_Witness ==
    /\ pc = "normalized"
    /\ \E i \in 1..Len(samples) :
          /\ isinf(samples[i])
          /\ isnan(FSub(samples[i], np_mean(samples)))
          /\ normalized[i] = Fin(0)
    /\ \E i \in 1..Len(samples) :
          /\ FSub(samples[i], np_mean(samples)) = Inf(1)
          /\ normalized[i] = Fin(CLIP)

\* a signal with a NaN sample has been normalized
C17_NaNReached ==
    /\ pc = "normalized"
    /\ \E i \in 1..Len(samples) : isnan(samples[i])

\* -Inf has been clipped to -10
C17_NegInfReached ==
    /\ pc = "normalized"
    /\ \E i \in 1..Len(normalized) : normalized[i] = Fin(0 - CLIP)

----------------------------------------------------------------------------
(* C18, C19: process_edf channel by channel *)

\* process_edf went as far as the loop over the selected channels
EdfLooped == pc = "returned" /\ raw.readable /\ filtered_channels # <<>>

\* the modality process_edf passes to _process_channel
ModalityOf(std_name) == get_channel_modality(std_name, modality_groups)

\* the band of the channel's modality is invalid at the recording's rate
FilterSkipped(std_name) ==
    /\ ModalityOf(std_name) \in DOMAIN FILTER_PARAMS
    /\ invalid_filter_range(raw.sfreq, FILTER_PARAMS[ModalityOf(std_name)].low,
                            FILTER_PARAMS[ModalityOf(std_name)].high)

\* what follows the filter in _process_channel
StepsAfterFilter ==
    (IF raw.sfreq # TARGET_SR THEN <<"interp1d">> ELSE <<>>)
        \o <<"zscore", "float16">>

\* reading, resampling or normalizing the selected channel k raises
ChannelRaises(k) ==
    \/ filtered_channels[k].found_name \notin Range(raw.ch_names)
    \/ filtered_channels[k].found_name \in faults.broken
    \/ (raw.n_times * TARGET_SR) \div raw.sfreq = 0

Survivors == {k \in DOMAIN filtered_channels : ~ChannelRaises(k)}

ProcessedNames ==
    {processed_channels[i].standard_name : i \in DOMAIN processed_channels}

\* C18: both cutoffs are clipped into [0.001, 0.999] of Nyquist, and a
\* channel whose clipped low cutoff is not below the clipped high one is
\* not filtered and raises nothing: it is resampled and normalized like the
\* others
C18_InvalidRangeSkipsTheFilter ==
    /\ \A m \in DOMAIN FILTER_PARAMS, sr \in NativeRates, f \in {"low", "high"} :
          LET c == clipped_cutoff(normalised_cutoff(FILTER_PARAMS[m][f], sr), sr)
          IN  /\ c >= NormParts(sr) \div 1000
              /\ c <= 999 * (NormParts(sr) \div 1000)
    /\ EdfLooped =>
          \A k \in Survivors :
              FilterSkipped(filtered_channels[k].standard_name) =>
                  \E i \in DOMAIN processed_channels :
                      /\ processed_channels[i].standard_name
                            = filtered_channels[k].standard_name
                      /\ processed_channels[i].signal.applied = StepsAfterFilter
                      /\ processed_channels[i].signal.length
                            = (raw.n_times * TARGET_SR) \div raw.sfreq

\* the chin EMG of a 16 Hz recording was resampled and normalized
\* unfiltered, next to a filtered EEG channel
C18_Witness ==
    /\ EdfSucceeded
    /\ raw.sfreq = 16
    /\ \E i \in DOMAIN Written :
          /\ Written[i].standard_name = "CHIN"
          /\ FilterSkipped("CHIN")
          /\ Written[i].signal.applied = <<"interp1d", "zscore", "float16">>
    /\ \E i \in DOMAIN Written :
          /\ Written[i].standard_name = "C3-M2"
          /\ Written[i].signal.applied
                = <<"filtfilt", "interp1d", "zscore", "float16">>

\* every selected channel whose processing raises nothing is processed
SurvivorsAreProcessed ==
    /\ ProcessedNames = {filtered_channels[k].standard_name : k \in Survivors}
    /\ result.success =>
          /\ Written = processed_channels
          /\ result.channels_processed = Len(processed_channels)

\* no channel survived: the failure carries the number of selected channels
NoSurvivorIsCounted ==
    Survivors = {} =>
        /\ ~result.success
        /\ result.channels_found = Len(filtered_channels)

\* C19 as stated: success if and only if a selected channel was processed
C19_SuccessIffAChannelProcessed ==
    EdfLooped =>
        /\ result.success <=> processed_channels # <<>>
        /\ SurvivorsAreProcessed
        /\ NoSurvivorIsCounted

\* C19: success if and only if a selected channel was processed and the
\* container was written; a channel that raises is only left out, the
\* others are processed and written; when none survives the failure
\* carries the number of selected channels
C19_SuccessIffProcessedAndSaved ==
    EdfLooped =>
        /\ result.success <=> (processed_channels # <<>> /\ ~faults.save_raises)
        /\ SurvivorsAreProcessed
        /\ NoSurvivorIsCounted

\* one of two selected channels could not be read and the other was written
C19_Witness ==
    /\ EdfSucceeded
    /\ Len(filtered_channels) = 2
    /\ Cardinality(Survivors) = 1
    /\ Len(Written) = 1

\* no selected channel survived
C19_NoneSurvivedReached ==
    /\ EdfLooped
    /\ Survivors = {}
    /\ result = EdfFailure("No channels processed", Len(filtered_channels))

\* channels were processed and writing the container failed
C19_SaveFailedReached ==
    /\ EdfLooped
    /\ processed_channels # <<>>
    /\ faults.save_raises
    /\ ~result.success

----------------------------------------------------------------------------
(* C20: the two entry points side by side *)

\* a SignalProcessor and an AnnotationProcessor, one call to either
InitRun == InitEdf

NextRun == ProcessEdf \/ ProcessAnnotations

SpecRun == InitRun /\ [][NextRun]_vars

\* which of the two calls returned
EdfReturned == pc = "returned" /\ dataset = None

AnnotReturned == pc = "returned" /\ dataset # None

\* a result record with success = False and an error reason
IsFailure(r) == ~r.success /\ r.error # ""

\* the failures of process_edf are returned as failure records
EdfFailuresAreReturned ==
    EdfReturned =>
        /\ ~raw.readable => IsFailure(result)
        /\ (raw.readable /\ channel_mapping = <<>>) => IsFailure(result)
        /\ (processed_channels # <<>> /\ faults.save_raises) => IsFailure(result)

\* an empty stage list and a write error are returned as failure records,
\* and a duration mismatch is not one
AnnotFailuresAreReturned ==
    AnnotReturned =>
        /\ stages = <<>> => IsFailure(result)
        /\ (stages # <<>> /\ faults.save_raises) => IsFailure(result)
        /\ (stages # <<>> /\ sync_result.needs_adjustment /\ ~faults.save_raises)
              => result.success

\* the EDF exists and cannot be read when the synchronization is validated
SyncReadFailed ==
    /\ AnnotReturned
    /\ stages # <<>>
    /\ validate_sync
    /\ edf.exists
    /\ EdfReadFails(edf)

\* C20: no call ends by raising, and an unreadable file, no recognised
\* channel, an empty stage list, an EDF that cannot be read during the
\* synchronization and a write error all give a record with success = False
\* and an error reason, while a duration mismatch gives no failure
C20_EveryFailureIsReturned ==
    /\ pc \in {"idle", "returned"}
    /\ EdfFailuresAreReturned
    /\ AnnotFailuresAreReturned
    /\ SyncReadFailed => IsFailure(result)

----------------------------------------------------------------------------
(* PreprocessingPipeline.process_dataset: the loop over the subjects of one  *)
(* dataset and the summary after it.  The model starts where the loop is    *)
(* entered; the write of a signal container is a step of its own, between   *)
(* the opening of the file and its close.                                   *)

MaxSubjects == 2

\* a row of dataset_df: the edf_path is an existing file, a missing file or
\* no path at all (Path(...) raises), and the annotation_path is an existing
\* file or not
SubjectRows == [edf : {"found", "not_found", "bad_path"}, annotation : BOOLEAN]

\* what is at an output path before the call: nothing, or the output of an
\* earlier run
FilesBefore == [h5 : {"absent", "previous"}, npy : {"absent", "previous"}]

\* Path.exists()
exists(file) == file # "absent"

either_output_exists(out) == exists(out.h5) \/ exists(out.npy)

\* hdf5_path.exists() and annot_path.exists()
outputs_exist(out) == exists(out.h5) /\ exists(out.npy)

\* an entry of results
ResultRecord(subject_id, status, reason) ==
    [subject_id |-> subject_id, status |-> status, reason |-> reason]

\* len(summary_df[summary_df['status'] == status])
CountStatus(res, status) ==
    Cardinality({i \in DOMAIN res : res[i].status = status})

InitBatch ==
    /\ pc = "iterating"
    /\ subjects \in SeqsUpTo(SubjectRows, MaxSubjects)
    /\ skip_existing \in BOOLEAN
    /\ cursor = 1
    /\ outputs \in [DOMAIN subjects -> FilesBefore]
    /\ results = <<>>
    /\ summary = None
    /\ AnnotIdle
    /\ AdapterIdle
    /\ ChannelIdle
    /\ GroupIdle
    /\ EdfIdle
    /\ NormIdle

BatchUnchanged ==
    UNCHANGED <<stages, stage_array, edf, sync_result, synced_array,
                adapter_vars, channel_vars, group_vars, edf_vars, norm_vars>>

\* the rest of an iteration once process_edf returned: process_annotations
\* when the annotation file exists, then the combined record
finish_subject(i, signal_success, outs) ==
    \E annotation_saved \in BOOLEAN :
        /\ outputs' = IF subjects[i].annotation /\ annotation_saved
                      THEN [outs EXCEPT ![i].npy = "complete"]
                      ELSE outs
        /\ results' = Append(results,
                             ResultRecord(i, IF signal_success THEN "success"
                                             ELSE "failed", "signal"))
        /\ cursor' = cursor + 1
        /\ pc' = "iterating"

\* one iteration, up to the moment process_edf opens the container
ProcessSubject ==
    /\ pc = "iterating"
    /\ cursor <= Len(subjects)
    /\ IF skip_existing /\ outputs_exist(outputs[cursor])
       THEN /\ results' = Append(results,
                                 ResultRecord(cursor, "skipped", "exists"))
            /\ cursor' = cursor + 1
            /\ UNCHANGED <<pc, outputs>>
       ELSE IF subjects[cursor].edf = "bad_path"
       THEN /\ results' = Append(results,
                                 ResultRecord(cursor, "failed", "exception"))
            /\ cursor' = cursor + 1
            /\ UNCHANGED <<pc, outputs>>
       ELSE IF subjects[cursor].edf = "not_found"
       THEN /\ results' = Append(results,
                                 ResultRecord(cursor, "failed", "edf_not_found"))
            /\ cursor' = cursor + 1
            /\ UNCHANGED <<pc, outputs>>
       ELSE \E reaches_save \in BOOLEAN :
               IF reaches_save
               THEN /\ pc' = "writing"
                    /\ outputs' = [outputs EXCEPT ![cursor].h5 = "partial"]
                    /\ UNCHANGED <<results, cursor>>
               ELSE finish_subject(cursor, FALSE, outputs)
    /\ UNCHANGED <<subjects, skip_existing, summary>>
    /\ BatchUnchanged

\* _save_hdf5 from the opened file on, and the rest of the iteration
SaveHdf5 ==
    /\ pc = "writing"
    /\ \E save_raises \in BOOLEAN :
          finish_subject(cursor, ~save_raises,
                         [outputs EXCEPT ![cursor].h5 =
                             IF save_raises THEN "partial" ELSE "complete"])
    /\ UNCHANGED <<subjects, skip_existing, summary>>
    /\ BatchUnchanged

\* the run is killed while the container is open
Kill ==
    /\ pc = "writing"
    /\ pc' = "killed"
    /\ UNCHANGED batch_vars
    /\ BatchUnchanged

\* what a file of this run is to the next run
Aged(file) == IF file = "complete" THEN "previous" ELSE file

\* process_dataset is called again on the same rows
Restart ==
    /\ pc = "killed"
    /\ pc' = "iterating"
    /\ cursor' = 1
    /\ results' = <<>>
    /\ outputs' = [i \in DOMAIN outputs |->
                      [h5 |-> Aged(outputs[i].h5), npy |-> Aged(outputs[i].npy)]]
    /\ UNCHANGED <<subjects, skip_existing, summary>>
    /\ BatchUnchanged

\* the summary after the loop: summary_df['status'] raises KeyError on a
\* frame built from an empty list
Summarise ==
    /\ pc = "iterating"
    /\ cursor = Len(subjects) + 1
    /\ IF results = <<>>
       THEN /\ pc' = "raised"
            /\ UNCHANGED summary
       ELSE /\ pc' = "summarised"
            /\ summary' = [success |-> CountStatus(results, "success"),
                           failed |-> CountStatus(results, "failed"),
                           skipped |-> CountStatus(results, "skipped")]
    /\ UNCHANGED <<subjects, skip_existing, cursor, outputs, results>>
    /\ BatchUnchanged

NextBatch == ProcessSubject \/ SaveHdf5 \/ Kill \/ Restart \/ Summarise

SpecBatch == InitBatch /\ [][NextBatch]_vars

----------------------------------------------------------------------------
(* Notions the batch claims are stated with *)

Statuses == {"success", "failed", "skipped"}

\* the rows the loop has passed have one record each, in the order of the
\* rows
OneRecordPerSubject ==
    /\ Len(results) = cursor - 1
    /\ \A i \in DOMAIN results :
          /\ results[i].subject_id = i
          /\ results[i].status \in Statuses

\* process_dataset has ended
BatchEnded == pc \in {"summarised", "raised"}

\* C21: every subject iterated has exactly one record with status success,
\* failed or skipped, whatever happened to the subjects before it, and the
\* call ends with a summary whose three counts add up to the number of
\* subjects iterated
C21_OneRecordPerSubjectAndCountsAddUp ==
    /\ OneRecordPerSubject
    /\ BatchEnded =>
          /\ Len(results) = Len(subjects)
          /\ pc = "summarised"
          /\ summary.success + summary.failed + summary.skipped = Len(subjects)

----------------------------------------------------------------------------
(* One configuration shared by the recordings processed after one another:  *)
(* detection, grouping, the derived views and the limits on each list of    *)
(* labels in turn.  Python passes the tables and the mappings by reference, *)
(* so each call is modelled with what it leaves in them.                    *)

\* the alias tables next to the base modality table and every cap table
SharedConfigs ==
    {[channel_alternatives |->
          <<[standard_name |-> "C3-M2", alternatives |-> <<LabelC3, LabelC3M>>],
            [standard_name |-> "C4-M1", alternatives |-> <<LabelC4>>],
            [standard_name |-> "CHIN", alternatives |-> <<LabelCHIN>>]>>,
      channel_priority |-> prio,
      modalities |-> m.modalities,
      sleepfm_modalities |-> m.sleepfm_modalities] :
        m \in {c \in ModalityConfigs :
                  \A k \in DOMAIN c.modalities :
                      c.modalities[k].channels = BaseChannels[ModalityNames[k]]},
        prio \in {<<>>, [n \in {"C3-M2"} |-> <<LabelC3M, LabelC3>>]}}

SharedLabels == {LabelC3, LabelC4, LabelChin, LabelC3M}

\* raw.ch_names of the recordings
LabelLists == {<<>>} \cup DistinctSeqs(SharedLabels, MaxLabels)

priority_order_extended(order, channels) == prioritized(order, channels)

\* the configured priority_order after the limits were applied to a group
\* over its cap: prioritized is a list of its own, the appends do not reach
\* the configured list
priority_order_left(order, channels) == order

\* the tables after _apply_sleepfm_limits
config_after_limits(cfg, mapping, groups) ==
    [cfg EXCEPT !.sleepfm_modalities =
        [g \in DOMAIN @ |->
            LET channels == sleepfm_group_channels(mapping, groups, g)
            IN  IF /\ Len(channels) > @[g].max_channels
                   /\ "priority_order" \in DOMAIN @[g]
                THEN [@[g] EXCEPT !.priority_order =
                         priority_order_left(@, channels)]
                ELSE @[g]]]

\* a mapping after the calls that were handed it: they read its items and
\* keys and store nothing in it
mapping_after_calls(mapping) == [i \in DOMAIN mapping |-> mapping[i]]

InitShared ==
    /\ pc = "configured"
    /\ config \in SharedConfigs
    /\ available_channels = <<>>
    /\ detected = <<>>
    /\ AnnotIdle
    /\ AdapterIdle
    /\ LaterIdle

\* the calls made for one recording, on the tables the earlier recordings
\* left
ProcessRecording ==
    /\ pc \in {"configured", "processed"}
    /\ \E chs \in LabelLists :
          LET mapping == detect_channels_from_list(config, chs)
              groups == group_channels_by_modality(config, mapping)
          IN  /\ available_channels' = chs
              /\ detected' = mapping
              /\ channel_mapping' = mapping_after_calls(mapping)
              /\ modality_groups' = groups
              /\ sleepfm_grouped' = get_sleepfm_groups(config, groups)
              /\ availability' = get_modality_availability(config, mapping)
              /\ missing' = get_missing_modalities(config, mapping)
              /\ filtered_channels' = apply_sleepfm_limits(config, mapping, groups)
              /\ config' = config_after_limits(config, mapping, groups)
    /\ pc' = "processed"
    /\ UNCHANGED <<stages, stage_array, edf, sync_result, synced_array>>
    /\ UNCHANGED <<adapter_vars, edf_vars, norm_vars, batch_vars>>

NextShared == ProcessRecording

SpecShared == InitShared /\ [][NextShared]_vars

\* what the calls return for a list of labels on given tables
ResultsOn(cfg, chs) ==
    LET mapping == detect_channels_from_list(cfg, chs)
        groups == group_channels_by_modality(cfg, mapping)
    IN  [detected |-> mapping,
         modality_groups |-> groups,
         sleepfm_grouped |-> get_sleepfm_groups(cfg, groups),
         availability |-> get_modality_availability(cfg, mapping),
         missing |-> get_missing_modalities(cfg, mapping),
         filtered_channels |-> apply_sleepfm_limits(cfg, mapping, groups)]

ResultsHeld ==
    [detected |-> detected,
     modality_groups |-> modality_groups,
     sleepfm_grouped |-> sleepfm_grouped,
     availability |-> availability,
     missing |-> missing,
     filtered_channels |-> filtered_channels]

----------------------------------------------------------------------------
(* C23 *)

\* a file that is whole: the output of an earlier run or of this one
Whole(file) == file \in {"previous", "complete"}

\* C23: the file at a container path is at every moment absent or whole,
\* a subject whose processing failed has no file of this call at its path,
\* and no subject is skipped over a container that is not whole
C23_NoPartialContainerVisible ==
    /\ \A i \in DOMAIN outputs : ~exists(outputs[i].h5) \/ Whole(outputs[i].h5)
    /\ \A i \in DOMAIN results :
          /\ results[i].status = "failed" =>
                outputs[results[i].subject_id].h5 \in {"absent", "previous"}
          /\ results[i].status = "skipped" =>
                Whole(outputs[results[i].subject_id].h5)

----------------------------------------------------------------------------
(* C24 *)

\* signal_result['num_channels'], signal_result['duration_seconds'] and
\* annot_result['num_epochs'] as test_preprocessing.py reads them
SignalKeysRead == {"num_channels", "duration_seconds"}

AnnotationKeysRead == {"num_epochs"}

\* C24: a success record of process_edf holds the keys num_channels and
\* duration_seconds, and a success record of process_annotations holds
\* num_epochs
C24_SuccessRecordsHoldTheKeysRead ==
    /\ (EdfReturned /\ result.success) => SignalKeysRead \subseteq DOMAIN result
    /\ (AnnotReturned /\ result.success) =>
          AnnotationKeysRead \subseteq DOMAIN result

----------------------------------------------------------------------------
(* C25 *)

\* the epochs that cover a recording of n_times samples, by the rule of the
\* grid construction: ceil(duration / 30) with duration = n_times / sfreq
EpochsCovering(hdr) == CeilDiv(hdr.n_times, EPOCH_DURATION * hdr.sfreq)

\* the recording lasts a whole number of epochs
WholeEpochs(hdr) == hdr.n_times % (EPOCH_DURATION * hdr.sfreq) = 0

\* C25: the expected epoch count of the synchronization is the count the
\* grid construction's rounding gives for the recording, so a recording of
\* exactly k x 30 s is expected, truncated and padded to k epochs
C25_ExpectedEpochsRoundLikeTheGrid ==
    SyncedWithSignal =>
        /\ sync_result.signal_epochs = EpochsCovering(edf)
        /\ (WholeEpochs(edf) /\ sync_result.needs_adjustment) =>
              Len(synced_array) * EPOCH_DURATION * edf.sfreq = edf.n_times

----------------------------------------------------------------------------
(* C26 *)

\* the loop is about to take the next row
AtSubject == pc = "iterating" /\ cursor <= Len(subjects)

\* both output files of the row are there
BothOutputsPresent ==
    outputs[cursor].h5 # "absent" /\ outputs[cursor].npy # "absent"

\* the step records the row as skipped
RecordsSkipped ==
    /\ results' = Append(results, ResultRecord(cursor, "skipped", "exists"))
    /\ cursor' = cursor + 1

\* C26: with skip_existing a row is skipped exactly when its container and
\* its label file both exist; a skipped row keeps its files as they are and
\* is recorded as skipped; a row with one file only, or any row without
\* skip_existing, is processed
C26_SkipsExactlyWhenBothOutputsExist ==
    [][AtSubject =>
          /\ RecordsSkipped <=> (skip_existing /\ BothOutputsPresent)
          /\ RecordsSkipped => outputs' = outputs
          /\ ~RecordsSkipped =>
                \/ pc' = "writing"
                \/ /\ Len(results') = Len(results) + 1
                   /\ results'[Len(results')].status \in {"success", "failed"}]_vars

\* of two rows the first was skipped over its two files and the second,
\* with a container and no label file, was processed
C26_Witness ==
    /\ skip_existing
    /\ Len(results) = 2
    /\ results[1].status = "skipped"
    /\ outputs[1] = [h5 |-> "previous", npy |-> "previous"]
    /\ results[2].status = "success"
    /\ outputs[2].h5 = "complete"

----------------------------------------------------------------------------
(* C27 *)

\* HDF5Validator._check_annotations: expected_epochs = int(duration / 30)
validator_expected_epochs(duration) ==
    IntDiv(duration.num, 30 * duration.den)

\* diff = abs(expected_epochs - actual_epochs); synchronized = diff <= 2
validator_synchronized(duration, actual_epochs) ==
    Abs(validator_expected_epochs(duration) - actual_epochs) <= 2

\* duration_seconds of the container, len(signal_data) / TARGET_SR, for a
\* resampled length within one sample of n_times * TARGET_SR / sfreq
ContainerDurations(hdr) ==
    {[num |-> hdr.n_times * TARGET_SR + d * hdr.sfreq,
      den |-> hdr.sfreq * TARGET_SR] : d \in {0 - 1, 0, 1}}

\* C27: after the synchronization step against a readable EDF, adjusted or
\* not, the label array that process_annotations saves is within 2 epochs of
\* floor(signal_duration / 30); the validator, which allows a difference of
\* 2 epochs, accepts it for the signal duration and for the duration
\* attribute of the container made from the same recording
C27_SavedLengthWithinValidatorTolerance ==
    SyncedWithSignal =>
        /\ Abs(Len(synced_array) - ExpectedEpochs) <= 2
        /\ validator_synchronized(signal_duration(edf), Len(synced_array))
        /\ \A duration \in ContainerDurations(edf) :
              validator_synchronized(duration, Len(synced_array))

\* an array two epochs longer than the expected count, left as it was
C27_Witness ==
    /\ SyncedWithSignal
    /\ stages # <<>>
    /\ ~sync_result.needs_adjustment
    /\ synced_array = stage_array
    /\ Len(synced_array) = ExpectedEpochs + 2

\* an array four epochs off, cut down to the expected count
C27_AdjustedReached ==
    /\ SyncedWithSignal
    /\ sync_result.needs_adjustment
    /\ Len(stage_array) = ExpectedEpochs + 4
    /\ Len(synced_array) = ExpectedEpochs

----------------------------------------------------------------------------
(* C28 *)

\* the (standard name, alternative) pairs in the order the two loops of
\* _build_reverse_mapping visit them
RECURSIVE ReversePairs(_, _)
ReversePairs(cfg, k) ==
    IF k = 0 THEN <<>>
    ELSE LET entry == cfg.channel_alternatives[k]
         IN  ReversePairs(cfg, k - 1)
                 \o [j \in DOMAIN entry.alternatives |->
                        [key |-> lower(entry.alternatives[j]),
                         standard_name |-> entry.standard_name]]

\* reverse_map[alt_name.lower()] = standard_name: a later pair replaces an
\* earlier one with the same lowercase alternative
build_reverse_mapping(cfg) ==
    LET pairs == ReversePairs(cfg, Len(cfg.channel_alternatives))
    IN  [k \in {pairs[i].key : i \in DOMAIN pairs} |->
            pairs[LastIndex({i \in DOMAIN pairs : pairs[i].key = k})].standard_name]

\* self._reverse_mapping.get(channel_name.lower())
standardize_channel_name(cfg, channel_name) ==
    LET reverse_mapping == build_reverse_mapping(cfg)
    IN  IF lower(channel_name) \in DOMAIN reverse_mapping
        THEN reverse_mapping[lower(channel_name)]
        ELSE None

\* C28: for every entry canonical -> raw of a returned mapping,
\* standardize_channel_name(raw) is that canonical name
C28_ReverseLookupAgrees ==
    Called =>
        \A i \in DOMAIN detected :
            standardize_channel_name(config, detected[i].found_name)
                = detected[i].standard_name

----------------------------------------------------------------------------
(* C29 *)

\* the output group holds more channels of the mapping than its cap
ExceedsCap(group) == Len(PresentIn(group)) > CapOf(group)

\* a channel of the input mapping that is not in the output
DroppedByLimits(name) ==
    /\ name \in Range(Keys(channel_mapping))
    /\ name \notin Range(Keys(filtered_channels))

\* C29: _apply_sleepfm_limits drops a channel only when the output group of
\* that channel exceeded its cap; every entry of the output is an entry of
\* the input mapping with its raw label; when no group exceeds its cap the
\* output holds exactly the entries of the input mapping
C29_DropsOnlyFromGroupsOverTheirCap ==
    pc = "limited" =>
        /\ Items(filtered_channels) \subseteq Items(channel_mapping)
        /\ \A name \in Range(Keys(channel_mapping)) :
              DroppedByLimits(name) =>
                  \E group \in Range(SleepfmNames) :
                      name \in Range(PresentIn(group)) /\ ExceedsCap(group)
        /\ (\A group \in Range(SleepfmNames) : ~ExceedsCap(group)) =>
              Items(filtered_channels) = Items(channel_mapping)

----------------------------------------------------------------------------
(* C30 *)

\* the names of the channel datasets of the written container
DatasetNames == {Written[i].standard_name : i \in DOMAIN Written}

\* C30: in the container of a successful process_edf call num_channels is
\* the number of channel datasets, the length of channel_names and the
\* number of normalization_stats entries, all for the same channels, and is
\* channels_processed of the result, with
\* 1 <= channels_processed <= channels_found
C30_ContainerCountsAgree ==
    EdfSucceeded =>
        LET attrs == output_file.attrs
        IN  /\ attrs.num_channels = Cardinality(DatasetNames)
            /\ attrs.num_channels = Len(attrs.channel_names)
            /\ attrs.num_channels = Len(attrs.normalization_stats)
            /\ Range(attrs.channel_names) = DatasetNames
            /\ {attrs.normalization_stats[i].standard_name :
                    i \in DOMAIN attrs.normalization_stats} = DatasetNames
            /\ attrs.num_channels = result.channels_processed
            /\ 1 <= result.channels_processed
            /\ result.channels_processed <= result.channels_found

\* a container of one channel out of the two selected ones of a recording
\* with two labels
C30_Witness ==
    /\ EdfSucceeded
    /\ Len(raw.ch_names) = 2
    /\ result.channels_found = 2
    /\ result.channels_processed = 1
    /\ output_file.attrs.num_channels = 1
    /\ Len(Written) = 1

====
